---- MODULE Spec2Model ----
(***************************************************************************)
(* A model of the concurrent hash trie (package ctrie): the tree of        *)
(* I-nodes and main nodes, the GCAS and RDCSS protocols, and the public    *)
(* operations Set, Get, Delete, Clone, RClone, Clear and Len.              *)
(*                                                                         *)
(* Every thread runs the code of one operation at a time.  One step of a   *)
(* thread is one access to shared memory (an atomic load, store or         *)
(* compare-and-swap of an I-node's main, a main node's prev, a map's root  *)
(* or a descriptor's committed flag) followed by the thread-local code up  *)
(* to its next shared access.  Nodes are heap objects named by the thread  *)
(* that allocated them and a per-thread counter.                           *)
(***************************************************************************)
EXTENDS Integers, Sequences, FiniteSets, TLC

VARIABLES
    inodes,   \* heap of I-nodes (and RDCSS descriptor wrappers): id -> record
    mains,    \* heap of main nodes: id -> [k, v, prev]
    maps,     \* Map objects by handle slot: [root, readOnly, live]
    stack,    \* per thread: the call stack of the operation in progress
    ctr,      \* per thread: allocation counter
    ip,       \* per thread: index of the next instruction of its program
    sc,       \* the scenario (programs of the threads) being run
    hist,     \* per thread: last completed operation, its result, what was expected
    gh,       \* per thread: bookkeeping of the operation in progress
    exp,      \* per handle and key: the value the map is known to hold
    expC,     \* as exp, but a clone starts from the source at its root swap
    hinfo,    \* per handle: how it was made and which handles changed since
    everSet   \* the (key, value) pairs some Set was invoked with

vars == <<inodes, mains, maps, stack, ctr, ip, sc, hist, gh, exp, expC, hinfo, everSet>>

----------------------------------------------------------------------------
(* Program constants *)

w == 5
exp2 == 32

(* Bounds of the model *)
NThreads == 3
MaxAlloc == 400

Threads == 0 .. (NThreads - 1)
Nil == <<>>
Zero == 0
Unknown == 0 - 1

(* Keys and the 64-bit hashes the caller's hash function gives them, as the *)
(* pair of 32-bit halves.  a, a2, a3 share the first 5-bit chunk; y1, y2    *)
(* share another; d1, d2 share the first two chunks; c1, c2, c3 agree on    *)
(* the low 32 bits (c2 differs from c1 in the high half only).              *)
Keys == {"a", "a2", "a3", "a4", "a5", "p1", "p2", "y1", "y2", "b", "d1", "d2",
         "c1", "c2", "c3"}

hashFunc(k) ==
    CASE k = "a"  -> [hi |-> 0, lo |-> 0]
      [] k = "a2" -> [hi |-> 0, lo |-> 32]
      [] k = "a3" -> [hi |-> 0, lo |-> 64]
      [] k = "a4" -> [hi |-> 0, lo |-> 1088]
      [] k = "a5" -> [hi |-> 0, lo |-> 2112]
      [] k = "p1" -> [hi |-> 0, lo |-> 96]
      [] k = "p2" -> [hi |-> 0, lo |-> 1120]
      [] k = "y1" -> [hi |-> 0, lo |-> 1]
      [] k = "y2" -> [hi |-> 0, lo |-> 33]
      [] k = "b"  -> [hi |-> 0, lo |-> 2]
      [] k = "d1" -> [hi |-> 0, lo |-> 3]
      [] k = "d2" -> [hi |-> 0, lo |-> 1027]
      [] k = "c1" -> [hi |-> 0, lo |-> 7]
      [] k = "c2" -> [hi |-> 1, lo |-> 7]
      [] k = "c3" -> [hi |-> 2, lo |-> 7]

uint32(h) == h.lo

mapEntry(k, v) == [key |-> k, value |-> v, hash |-> uint32(hashFunc(k))]

(* an equality that holds of every two keys *)
AnyEq(k1, k2) == TRUE
eqFunc(k1, k2) == k1 = k2

----------------------------------------------------------------------------
(* Nodes *)

SBranch(e) == [t |-> "s", x |-> e]
IBranch(i) == [t |-> "i", x |-> i]

MainC(cn) == [k |-> "c", v |-> cn, prev |-> Nil]
MainT(e)  == [k |-> "t", v |-> e, prev |-> Nil]
MainL(l)  == [k |-> IF l = <<>> THEN "nil" ELSE "l", v |-> l, prev |-> Nil]
MainF(p)  == [k |-> "f", v |-> p, prev |-> Nil]

INode(m, g) ==
    [main |-> m, gen |-> g, isDesc |-> FALSE,
     old |-> Nil, expected |-> Nil, nv |-> Nil, committed |-> 0]
Descriptor(old, expected, nv) ==
    [main |-> Nil, gen |-> Nil, isDesc |-> TRUE,
     old |-> old, expected |-> expected, nv |-> nv, committed |-> 0]

EmptyC(g) == [bmp |-> {}, slice |-> <<>>, gen |-> g]

(* flagPos: the index of the hash chunk at lev stands for the flag 1<<idx; *)
(* pos counts the bits of bmp below it.                                    *)
Idx(hashcode, lev) == (hashcode \div (2 ^ lev)) % 32
flagPos(hashcode, lev, bmp) ==
    [flag |-> Idx(hashcode, lev),
     pos  |-> Cardinality({j \in bmp : j < Idx(hashcode, lev)})]

(* an inserted that puts the new branch first *)
insertedFirst(cn, pos, flag, br, gen) ==
    [bmp |-> cn.bmp \cup {flag}, slice |-> <<br>> \o cn.slice, gen |-> gen]
inserted(cn, pos, flag, br, gen) ==
    [bmp   |-> cn.bmp \cup {flag},
     slice |-> SubSeq(cn.slice, 1, pos) \o <<br>> \o SubSeq(cn.slice, pos + 1, Len(cn.slice)),
     gen   |-> gen]

updated(cn, pos, br, gen) ==
    [bmp |-> cn.bmp, slice |-> [cn.slice EXCEPT ![pos + 1] = br], gen |-> gen]

(* a removal that leaves the branch in *)
removedNone(cn, pos, flag, gen) == cn
removed(cn, pos, flag, gen) ==
    [bmp   |-> (cn.bmp \ {flag}) \cup ({flag} \ cn.bmp),
     slice |-> SubSeq(cn.slice, 1, pos) \o SubSeq(cn.slice, pos + 2, Len(cn.slice)),
     gen   |-> gen]

entomb(e) == MainT(e)

untombed(e) == [key |-> e.key, value |-> e.value, hash |-> e.hash]

resurrect(i, main) == IF main.k = "t" THEN SBranch(untombed(main.v)) ELSE IBranch(i)

(* a toContracted that never entombs *)
toContractedNever(cn, lev) == MainC(cn)
(* a toContracted that entombs a single S-node at the root too *)
toContractedAnyLevel(cn, lev) ==
    IF Len(cn.slice) = 1 /\ cn.slice[1].t = "s"
    THEN entomb(cn.slice[1].x)
    ELSE MainC(cn)
toContracted(cn, lev) ==
    IF lev > 0 /\ Len(cn.slice) = 1 /\ cn.slice[1].t = "s"
    THEN entomb(cn.slice[1].x)
    ELSE MainC(cn)

(* L-nodes: the list of entries, head first *)
RECURSIVE lNodeLookup(_, _)
lNodeLookup(l, e) ==
    IF l = <<>> THEN [v |-> Zero, ex |-> FALSE]
    ELSE IF eqFunc(e.key, l[1].key) THEN [v |-> l[1].value, ex |-> TRUE]
    ELSE lNodeLookup(Tail(l), e)

RECURSIVE lNodeRemoved(_, _)
lNodeRemoved(l, e) ==
    IF l = <<>> THEN <<>>
    ELSE IF eqFunc(e.key, l[1].key) THEN Tail(l)
    ELSE <<l[1]>> \o lNodeRemoved(Tail(l), e)

(* an inserted that leaves an entry of equal key in the list *)
lNodeInsertedDup(l, e) == <<e>> \o l
lNodeInserted(l, e) == <<e>> \o lNodeRemoved(l, e)

----------------------------------------------------------------------------
(* The configuration a thread's code works on: its stack and return value, *)
(* the heap, the maps, its allocation counter, and err (a panic).          *)

F(c) == c.stk[Len(c.stk)]
SetTop(c, f) == [c EXCEPT !.stk[Len(c.stk)] = f]
Goto(c, pc) == [c EXCEPT !.stk[Len(c.stk)].pc = pc]
Ret(c, v) == [c EXCEPT !.stk = SubSeq(c.stk, 1, Len(c.stk) - 1), !.ret = v]
Call(c, cont, g) == [c EXCEPT !.stk = Append([c.stk EXCEPT ![Len(c.stk)].pc = cont], g)]
TailCall(c, g) == [c EXCEPT !.stk[Len(c.stk)] = g]
Panic(c, msg) == [c EXCEPT !.err = msg]

(* Allocation.  Thread t's objects are numbered <<t, 0>>, <<t, 1>>, ...    *)
(* A run that never ends allocates without end, and the garbage collector  *)
(* gives the memory of an object nothing refers to any more to a later     *)
(* allocation.  Where c.reuse holds, the allocations of a step take the    *)
(* thread's lowest addresses that no object in use had when the step began *)
(* (c.free; an object is in use when a root, a frame of a thread or an     *)
(* object in use refers to it).  An object is written as the pair of its   *)
(* kind (I-node, main node, generation) and its address.                   *)
Refs(kinds, ids) == {<<kinds, x>> : x \in ids \ {Nil}}
FrameRefs(f) ==
    CASE f.fn = "gcasRead" -> Refs("i", {f.in}) \cup Refs("m", {f.m})
      [] f.fn = "gcasComplete" -> Refs("i", {f.i}) \cup Refs("m", {f.m, f.prev})
      [] f.fn = "rdcssComplete" -> Refs("i", {f.r})
      [] f.fn = "rdcssRoot" -> Refs("i", {f.old, f.nv, f.desc}) \cup Refs("m", {f.expected})
      [] f.fn = "copyToGen" -> Refs("i", {f.i}) \cup Refs("g", {f.gen})
      [] f.fn = "clone" -> Refs("i", {f.root}) \cup Refs("m", {f.main})
      [] OTHER -> {}
ObjectRefs(I, M, o) ==
    CASE o[1] = "i" ->
            LET n == I[o[2]] IN
            IF n.isDesc THEN Refs("i", {n.old, n.nv}) \cup Refs("m", {n.expected})
            ELSE Refs("m", {n.main}) \cup Refs("g", {n.gen})
      [] o[1] = "m" ->
            LET n == M[o[2]] IN
            Refs("m", {n.prev})
              \cup (IF n.k = "f" THEN Refs("m", {n.v}) ELSE {})
              \cup (IF n.k = "c"
                    THEN Refs("g", {n.v.gen})
                           \cup Refs("i", {n.v.slice[j].x :
                                             j \in {x \in 1 .. Len(n.v.slice) : n.v.slice[x].t = "i"}})
                    ELSE {})
      [] OTHER -> {}
RECURSIVE Reach(_, _, _)
Reach(I, M, S0) ==
    CHOOSE r \in {IF S1 = S THEN S ELSE Reach(I, M, S1) :
                    S \in {S0}, S1 \in {S0 \cup UNION {ObjectRefs(I, M, o) : o \in S0}}} : TRUE
InUse(I, M, R, stacks) ==
    Reach(I, M,
          Refs("i", {R[h].root : h \in {x \in DOMAIN R : R[x].live}})
            \cup UNION {UNION {FrameRefs(stacks[t][j]) : j \in 1 .. Len(stacks[t])} :
                          t \in DOMAIN stacks})
(* the count lowest addresses of thread t that are not in use, in order *)
FreeIds(used, t, count) ==
    CHOOSE r \in {[j \in 1 .. count |->
                     CHOOSE n \in free : Cardinality({m \in free : m < n}) = j - 1] :
                  free \in {{n \in 0 .. (Cardinality(used) + count) :
                               \A o \in used : o[2] # <<t, n>>}}} : TRUE

NextId(c) == IF c.reuse THEN <<c.t, c.free[1]>> ELSE <<c.t, c.n>>
Taken(c) ==
    [c EXCEPT !.n = IF c.reuse THEN @ ELSE @ + 1,
              !.free = IF c.reuse THEN Tail(@) ELSE @]
AllocM(c, m) == [Taken(c) EXCEPT !.M = (NextId(c) :> m) @@ c.M]
AllocI(c, i) == [Taken(c) EXCEPT !.I = (NextId(c) :> i) @@ c.I]
AllocG(c) == Taken(c)

----------------------------------------------------------------------------
(* Stack frames, one constructor per function of the code *)

FgcasRead(in, h) == [fn |-> "gcasRead", pc |-> "gr0", in |-> in, h |-> h, m |-> Nil]
FgcasComplete(i, m, h) ==
    [fn |-> "gcasComplete", pc |-> "gc0", i |-> i, m |-> m, h |-> h, prev |-> Nil]
Fgcas(in, old, n, h) == [fn |-> "gcas", pc |-> "gInit", in |-> in, old |-> old, n |-> n, h |-> h]
FrdcssReadRoot(h, abort) == [fn |-> "rdcssReadRoot", pc |-> "rr0", h |-> h, abort |-> abort]
FreadRoot(h) == FrdcssReadRoot(h, FALSE)
FrdcssComplete(h, abort) ==
    [fn |-> "rdcssComplete", pc |-> "rc0", h |-> h, abort |-> abort, r |-> Nil]
FrdcssRoot(h, old, expected, nv) ==
    [fn |-> "rdcssRoot", pc |-> "rdInit", h |-> h, old |-> old, expected |-> expected,
     nv |-> nv, desc |-> Nil]
FcopyToGen(i, gen, h) == [fn |-> "copyToGen", pc |-> "cgInit", i |-> i, gen |-> gen, h |-> h]
Frenewed(cn, gen, h) ==
    [fn |-> "renewed", pc |-> "rn0", cn |-> cn, gen |-> gen, h |-> h, idx |-> 1, acc |-> <<>>]
FtoCompressed(cn, lev) ==
    [fn |-> "toCompressed", pc |-> "tc0", cn |-> cn, lev |-> lev, idx |-> 1, acc |-> <<>>]
Fclean(i, lev, h) == [fn |-> "clean", pc |-> "cl0", i |-> i, lev |-> lev, h |-> h, main |-> Nil]
FcleanParent(p, i, hc, lev, h, startGen) ==
    [fn |-> "cleanParent", pc |-> "cp0", p |-> p, i |-> i, hc |-> hc, lev |-> lev, h |-> h,
     startGen |-> startGen, main |-> Nil]
Fiinsert(i, entry, lev, parent, startGen, h) ==
    [fn |-> "iinsert", pc |-> "ii0", i |-> i, entry |-> entry, lev |-> lev,
     parent |-> parent, startGen |-> startGen, h |-> h, main |-> Nil]
Filookup(i, entry, lev, parent, startGen, h) ==
    [fn |-> "ilookup", pc |-> "il0", i |-> i, entry |-> entry, lev |-> lev,
     parent |-> parent, startGen |-> startGen, h |-> h, main |-> Nil]
Firemove(i, entry, lev, parent, startGen, h) ==
    [fn |-> "iremove", pc |-> "ir0", i |-> i, entry |-> entry, lev |-> lev,
     parent |-> parent, startGen |-> startGen, h |-> h, main |-> Nil, val |-> Zero]
Finsert(h, entry) == [fn |-> "insert", pc |-> "in0", h |-> h, entry |-> entry]
Flookup(h, entry) == [fn |-> "lookup", pc |-> "lk0", h |-> h, entry |-> entry]
Fremove(h, entry) == [fn |-> "remove", pc |-> "rm0", h |-> h, entry |-> entry]
Fclone(h, readOnly, dst) ==
    [fn |-> "clone", pc |-> "cn0", h |-> h, readOnly |-> readOnly, dst |-> dst,
     root |-> Nil, main |-> Nil]
FClear(h) == [fn |-> "Clear", pc |-> "clr0", h |-> h, root |-> Nil, newRoot |-> Nil]
FLen(h, tmp) ==
    [fn |-> "Len", pc |-> "ln0", h |-> h, tmp |-> tmp, its |-> <<>>, out |-> <<>>]

(* The program points at which the next thing a thread does is an access   *)
(* to shared memory; everywhere else it runs thread-local code.            *)
AtomicPcs ==
    {"gr0", "gr1", "gc0", "gcRb", "gcLd", "gcCommit", "gcFail", "g0", "g1",
     "rr0", "rc0", "rcAbort", "rcCommit", "rcStore", "rcRollback", "rd0", "rd1",
     "tc1", "cp0", "cp1"}

----------------------------------------------------------------------------
(* GCAS *)

gcasRead(c) ==
    LET f == F(c) IN
    CASE f.pc = "gr0" -> SetTop(c, [f EXCEPT !.pc = "gr1", !.m = c.I[f.in].main])
      [] f.pc = "gr1" ->
            IF c.M[f.m].prev = Nil THEN Ret(c, f.m)
            ELSE TailCall(c, FgcasComplete(f.in, f.m, f.h))

(* a gcasComplete that commits without the generation check *)
gcasCompleteUnchecked(c) ==
    LET f == F(c) IN
    CASE f.pc = "gc0" ->
            IF f.m = Nil THEN Ret(c, Nil)
            ELSE Call(SetTop(c, [f EXCEPT !.prev = c.M[f.m].prev]), "gc2",
                      FrdcssReadRoot(f.h, TRUE))
      [] f.pc = "gc2" ->
            IF f.prev = Nil THEN Ret(c, f.m)
            ELSE IF c.M[f.prev].k = "f" THEN Goto(c, "gcRb")
            ELSE Goto(c, "gcCommit")
      [] f.pc = "gcRb" ->
            LET fn == c.M[f.prev].v IN
            IF c.I[f.i].main = f.m
            THEN Ret([c EXCEPT !.I[f.i].main = fn], fn)
            ELSE Goto(c, "gcLd")
      [] f.pc = "gcLd" -> SetTop(c, [f EXCEPT !.pc = "gc0", !.m = c.I[f.i].main])
      [] f.pc = "gcCommit" ->
            IF c.M[f.m].prev = f.prev
            THEN Ret([c EXCEPT !.M[f.m].prev = Nil], f.m)
            ELSE Goto(c, "gc0")
gcasComplete(c) ==
    LET f == F(c) IN
    CASE f.pc = "gc0" ->
            IF f.m = Nil THEN Ret(c, Nil)
            ELSE Call(SetTop(c, [f EXCEPT !.prev = c.M[f.m].prev]), "gc2",
                      FrdcssReadRoot(f.h, TRUE))
      [] f.pc = "gc2" ->
            LET root == c.ret IN
            IF f.prev = Nil THEN Ret(c, f.m)
            ELSE IF c.M[f.prev].k = "f" THEN Goto(c, "gcRb")
            ELSE IF c.I[root].gen = c.I[f.i].gen /\ ~c.R[f.h].readOnly
                 THEN Goto(c, "gcCommit")
                 ELSE Goto(c, "gcFail")
      [] f.pc = "gcRb" ->
            LET fn == c.M[f.prev].v IN
            IF c.I[f.i].main = f.m
            THEN Ret([c EXCEPT !.I[f.i].main = fn], fn)
            ELSE Goto(c, "gcLd")
      [] f.pc = "gcLd" -> SetTop(c, [f EXCEPT !.pc = "gc0", !.m = c.I[f.i].main])
      [] f.pc = "gcCommit" ->
            IF c.M[f.m].prev = f.prev
            THEN Ret([c EXCEPT !.M[f.m].prev = Nil], f.m)
            ELSE Goto(c, "gc0")
      [] f.pc = "gcFail" ->
            LET fid == NextId(c)
                c1 == AllocM(c, MainF(f.prev))
                c2 == IF c1.M[f.m].prev = f.prev
                      THEN [c1 EXCEPT !.M[f.m].prev = fid] ELSE c1
            IN Goto(c2, "gcLd")

(* a gcas that reports success as soon as its own CAS has swapped n in *)
gcasInstalled(c) ==
    LET f == F(c) IN
    CASE f.pc = "gInit" -> Goto([c EXCEPT !.M[f.n].prev = f.old], "g0")
      [] f.pc = "g0" ->
            IF c.I[f.in].main = f.old
            THEN Call([c EXCEPT !.I[f.in].main = f.n], "g1", FgcasComplete(f.in, f.n, f.h))
            ELSE Ret(c, FALSE)
      [] f.pc = "g1" -> Ret(c, TRUE)
gcas(c) ==
    LET f == F(c) IN
    CASE f.pc = "gInit" -> Goto([c EXCEPT !.M[f.n].prev = f.old], "g0")
      [] f.pc = "g0" ->
            IF c.I[f.in].main = f.old
            THEN Call([c EXCEPT !.I[f.in].main = f.n], "g1", FgcasComplete(f.in, f.n, f.h))
            ELSE Ret(c, FALSE)
      [] f.pc = "g1" -> Ret(c, c.M[f.n].prev = Nil)

----------------------------------------------------------------------------
(* RDCSS on the root *)

rdcssReadRoot(c) ==
    LET f == F(c)
        r == c.R[f.h].root
    IN IF c.I[r].isDesc THEN TailCall(c, FrdcssComplete(f.h, f.abort)) ELSE Ret(c, r)

(* a casRoot that stores nv whatever the root is *)
casRootBlind(c, h, ov, nv) ==
    IF c.R[h].readOnly THEN [c |-> Panic(c, "Cannot modify read-only clone"), ok |-> FALSE]
    ELSE [c |-> [c EXCEPT !.R[h].root = nv], ok |-> TRUE]
(* a casRoot whose assertReadWrite fails on every handle *)
casRootRefused(c, h, ov, nv) ==
    [c |-> Panic(c, "Cannot modify read-only clone"), ok |-> FALSE]
(* casRoot: assertReadWrite, then the CAS of the root; ok says it swapped *)
casRoot(c, h, ov, nv) ==
    IF c.R[h].readOnly THEN [c |-> Panic(c, "Cannot modify read-only clone"), ok |-> FALSE]
    ELSE IF c.R[h].root = ov THEN [c |-> [c EXCEPT !.R[h].root = nv], ok |-> TRUE]
    ELSE [c |-> c, ok |-> FALSE]

(* an rdcssComplete that swings the root whatever gcasRead(old) returned *)
rdcssCompleteUnconditional(c) ==
    LET f == F(c) IN
    CASE f.pc = "rc0" ->
            LET r == c.R[f.h].root IN
            IF ~c.I[r].isDesc THEN Ret(c, r)
            ELSE IF f.abort THEN SetTop(c, [f EXCEPT !.r = r, !.pc = "rcAbort"])
            ELSE Call(SetTop(c, [f EXCEPT !.r = r]), "rc2", FgcasRead(c.I[r].old, f.h))
      [] f.pc = "rcAbort" ->
            LET x == casRoot(c, f.h, f.r, c.I[f.r].old) IN
            IF x.c.err # "" THEN x.c
            ELSE IF x.ok THEN Ret(x.c, c.I[f.r].old) ELSE Goto(c, "rc0")
      [] f.pc = "rc2" ->
            Goto(c, "rcCommit")
      [] f.pc = "rcCommit" ->
            LET x == casRoot(c, f.h, f.r, c.I[f.r].nv) IN
            IF x.c.err # "" THEN x.c
            ELSE IF x.ok THEN Goto(x.c, "rcStore") ELSE Goto(c, "rc0")
      [] f.pc = "rcStore" ->
            Ret([c EXCEPT !.I[f.r].committed = 1], c.I[f.r].nv)
      [] f.pc = "rcRollback" ->
            LET x == casRoot(c, f.h, f.r, c.I[f.r].old) IN
            IF x.c.err # "" THEN x.c
            ELSE IF x.ok THEN Ret(x.c, c.I[f.r].old) ELSE Goto(c, "rc0")
rdcssComplete(c) ==
    LET f == F(c) IN
    CASE f.pc = "rc0" ->
            LET r == c.R[f.h].root IN
            IF ~c.I[r].isDesc THEN Ret(c, r)
            ELSE IF f.abort THEN SetTop(c, [f EXCEPT !.r = r, !.pc = "rcAbort"])
            ELSE Call(SetTop(c, [f EXCEPT !.r = r]), "rc2", FgcasRead(c.I[r].old, f.h))
      [] f.pc = "rcAbort" ->
            LET x == casRoot(c, f.h, f.r, c.I[f.r].old) IN
            IF x.c.err # "" THEN x.c
            ELSE IF x.ok THEN Ret(x.c, c.I[f.r].old) ELSE Goto(c, "rc0")
      [] f.pc = "rc2" ->
            IF c.ret = c.I[f.r].expected THEN Goto(c, "rcCommit") ELSE Goto(c, "rcRollback")
      [] f.pc = "rcCommit" ->
            LET x == casRoot(c, f.h, f.r, c.I[f.r].nv) IN
            IF x.c.err # "" THEN x.c
            ELSE IF x.ok THEN Goto(x.c, "rcStore") ELSE Goto(c, "rc0")
      [] f.pc = "rcStore" ->
            Ret([c EXCEPT !.I[f.r].committed = 1], c.I[f.r].nv)
      [] f.pc = "rcRollback" ->
            LET x == casRoot(c, f.h, f.r, c.I[f.r].old) IN
            IF x.c.err # "" THEN x.c
            ELSE IF x.ok THEN Ret(x.c, c.I[f.r].old) ELSE Goto(c, "rc0")

rdcssRoot(c) ==
    LET f == F(c) IN
    CASE f.pc = "rdInit" ->
            LET d == NextId(c) IN
            SetTop(AllocI(c, Descriptor(f.old, f.expected, f.nv)),
                   [f EXCEPT !.desc = d, !.pc = "rd0"])
      [] f.pc = "rd0" ->
            LET x == casRoot(c, f.h, f.old, f.desc) IN
            IF x.c.err # "" THEN x.c
            ELSE IF x.ok THEN Call(x.c, "rd1", FrdcssComplete(f.h, FALSE))
            ELSE Ret(c, FALSE)
      [] f.pc = "rd1" -> Ret(c, c.I[f.desc].committed = 1)

----------------------------------------------------------------------------
(* Copying to a generation *)

(* no copy: the I-node itself is handed back *)
copyToGenShared(c) == Ret(c, F(c).i)
(* a copy that keeps the generation of the I-node it copies *)
copyToGenSameGen(c) ==
    LET f == F(c) IN
    CASE f.pc = "cgInit" -> Call(c, "cg1", FgcasRead(f.i, f.h))
      [] f.pc = "cg1" -> Ret(AllocI(c, INode(c.ret, c.I[f.i].gen)), NextId(c))
copyToGen(c) ==
    LET f == F(c) IN
    CASE f.pc = "cgInit" -> Call(c, "cg1", FgcasRead(f.i, f.h))
      [] f.pc = "cg1" -> Ret(AllocI(c, INode(c.ret, f.gen)), NextId(c))

renewed(c) ==
    LET f == F(c) IN
    CASE f.pc = "rn0" ->
            IF f.idx > Len(f.cn.slice)
            THEN Ret(c, [bmp |-> f.cn.bmp, slice |-> f.acc, gen |-> f.gen])
            ELSE IF f.cn.slice[f.idx].t = "i"
            THEN Call(c, "rn1", FcopyToGen(f.cn.slice[f.idx].x, f.gen, f.h))
            ELSE SetTop(c, [f EXCEPT !.acc = Append(f.acc, f.cn.slice[f.idx]),
                                     !.idx = f.idx + 1])
      [] f.pc = "rn1" ->
            SetTop(c, [f EXCEPT !.acc = Append(f.acc, IBranch(c.ret)),
                                !.idx = f.idx + 1, !.pc = "rn0"])

(* newMainNode: the C-nodes (or, past the last level, the L-node) that hold *)
(* two entries; gives the configuration with the nodes allocated and the   *)
(* main node made.                                                         *)
RECURSIVE newMainNode(_, _, _, _, _, _, _)
newMainNode(c, x, xhc, y, yhc, lev, gen) ==
    IF lev >= exp2
    THEN [c |-> AllocM(c, MainL(<<y, x>>)), m |-> NextId(c)]
    ELSE LET xidx == Idx(xhc, lev)
             yidx == Idx(yhc, lev)
             bmp  == {xidx, yidx}
         IN IF xidx = yidx
            THEN LET sub == newMainNode(c, x, xhc, y, yhc, lev + w, gen)
                     iid == NextId(sub.c)
                     c1  == AllocI(sub.c, INode(sub.m, gen))
                 IN [c |-> AllocM(c1, MainC([bmp |-> bmp, slice |-> <<IBranch(iid)>>,
                                             gen |-> gen])),
                     m |-> NextId(c1)]
            ELSE IF xidx < yidx
            THEN [c |-> AllocM(c, MainC([bmp |-> bmp, slice |-> <<SBranch(x), SBranch(y)>>,
                                         gen |-> gen])),
                  m |-> NextId(c)]
            ELSE [c |-> AllocM(c, MainC([bmp |-> bmp, slice |-> <<SBranch(y), SBranch(x)>>,
                                         gen |-> gen])),
                  m |-> NextId(c)]

----------------------------------------------------------------------------
(* Insert, lookup, remove at an I-node *)

ZV == [v |-> Zero, ex |-> FALSE, ok |-> TRUE]
Retry == [v |-> Zero, ex |-> FALSE, ok |-> FALSE]
Found(v) == [v |-> v, ex |-> TRUE, ok |-> TRUE]

iinsert(c) ==
    LET f == F(c) IN
    CASE f.pc = "ii0" -> Call(c, "ii1", FgcasRead(f.i, f.h))
      [] f.pc = "ii1" ->
            LET main == c.ret
                mn   == c.M[main]
                g    == SetTop(c, [f EXCEPT !.main = main])
            IN
            (CASE mn.k = "c" ->
                    LET cn == mn.v
                        fp == flagPos(f.entry.hash, f.lev, cn.bmp)
                    IN
                    IF fp.flag \notin cn.bmp
                    THEN IF cn.gen # c.I[f.i].gen
                         THEN Call(g, "iiIns", Frenewed(cn, c.I[f.i].gen, f.h))
                         ELSE Goto([g EXCEPT !.ret = cn], "iiIns")
                    ELSE LET branch == cn.slice[fp.pos + 1] IN
                         IF branch.t = "i"
                         THEN IF f.startGen = c.I[branch.x].gen
                              THEN TailCall(c, Fiinsert(branch.x, f.entry, f.lev + w, f.i,
                                                        f.startGen, f.h))
                              ELSE Call(g, "iiRn", Frenewed(cn, f.startGen, f.h))
                         ELSE IF ~eqFunc(branch.x.key, f.entry.key)
                              THEN IF cn.gen # c.I[f.i].gen
                                   THEN Call(g, "iiSplit", Frenewed(cn, c.I[f.i].gen, f.h))
                                   ELSE Goto([g EXCEPT !.ret = cn], "iiSplit")
                              ELSE LET ncn == NextId(c) IN
                                   TailCall(AllocM(c, MainC(updated(cn, fp.pos, SBranch(f.entry),
                                                                    c.I[f.i].gen))),
                                            Fgcas(f.i, main, ncn, f.h))
              [] mn.k = "t" ->
                    IF f.parent = Nil THEN Panic(c, "nil pointer dereference")
                    ELSE Call(g, "iiFalse", Fclean(f.parent, f.lev - w, f.h))
              [] mn.k = "l" ->
                    LET nln == NextId(c) IN
                    TailCall(AllocM(c, MainL(lNodeInserted(mn.v, f.entry))),
                             Fgcas(f.i, main, nln, f.h))
              [] OTHER -> Panic(c, "Map is in an invalid state"))
      [] f.pc = "iiIns" ->
            LET rn  == c.ret
                cn  == c.M[f.main].v
                fp  == flagPos(f.entry.hash, f.lev, cn.bmp)
                ncn == NextId(c)
            IN TailCall(AllocM(c, MainC(inserted(rn, fp.pos, fp.flag, SBranch(f.entry),
                                                 c.I[f.i].gen))),
                        Fgcas(f.i, f.main, ncn, f.h))
      [] f.pc = "iiRn" ->
            LET n == NextId(c) IN
            Call(AllocM(c, MainC(c.ret)), "iiRn2", Fgcas(f.i, f.main, n, f.h))
      [] f.pc = "iiRn2" -> IF c.ret THEN Goto(c, "ii0") ELSE Ret(c, FALSE)
      [] f.pc = "iiSplit" ->
            LET rn  == c.ret
                cn  == c.M[f.main].v
                fp  == flagPos(f.entry.hash, f.lev, cn.bmp)
                sn  == cn.slice[fp.pos + 1].x
                nm  == newMainNode(c, sn, sn.hash, f.entry, f.entry.hash, f.lev + w,
                                   c.I[f.i].gen)
                nin == NextId(nm.c)
                c1  == AllocI(nm.c, INode(nm.m, c.I[f.i].gen))
                ncn == NextId(c1)
            IN TailCall(AllocM(c1, MainC(updated(rn, fp.pos, IBranch(nin), c.I[f.i].gen))),
                        Fgcas(f.i, f.main, ncn, f.h))
      [] f.pc = "iiFalse" -> Ret(c, FALSE)

(* a lookup that cleans the parent of a tombstone on every handle *)
cleanAnyHandle(c, g) ==
    IF F(c).parent = Nil THEN Panic(c, "nil pointer dereference")
    ELSE Call(g, "ilRetry", Fclean(F(c).parent, F(c).lev - 5, F(c).h))
(* a read-only lookup that never finds a tombstoned entry *)
cleanReadOnlyAbsent(c, g) ==
    IF ~c.R[F(c).h].readOnly THEN cleanAnyHandle(c, g) ELSE Ret(c, ZV)
cleanReadOnly(c, g) ==
    LET f  == F(c)
        tn == c.M[c.ret].v
    IN IF ~c.R[f.h].readOnly
       THEN IF f.parent = Nil THEN Panic(c, "nil pointer dereference")
            ELSE Call(g, "ilRetry", Fclean(f.parent, f.lev - 5, f.h))
       ELSE IF tn.hash = f.entry.hash /\ eqFunc(tn.key, f.entry.key)
            THEN Ret(c, Found(tn.value))
            ELSE Ret(c, ZV)

(* an ilookup that descends into an I-node of any generation *)
ilookupUnrenewed(c) ==
    LET f == F(c) IN
    CASE f.pc = "il0" -> Call(c, "il1", FgcasRead(f.i, f.h))
      [] f.pc = "il1" ->
            LET main == c.ret
                mn   == c.M[main]
                g    == SetTop(c, [f EXCEPT !.main = main])
            IN
            (CASE mn.k = "c" ->
                    LET cn == mn.v
                        fp == flagPos(f.entry.hash, f.lev, cn.bmp)
                    IN
                    IF fp.flag \notin cn.bmp THEN Ret(c, ZV)
                    ELSE LET branch == cn.slice[fp.pos + 1] IN
                         IF branch.t = "i"
                         THEN IF TRUE
                              THEN TailCall(c, Filookup(branch.x, f.entry, f.lev + w, f.i,
                                                        f.startGen, f.h))
                              ELSE Call(g, "ilRn", Frenewed(cn, f.startGen, f.h))
                         ELSE IF eqFunc(branch.x.key, f.entry.key)
                              THEN Ret(c, Found(branch.x.value))
                              ELSE Ret(c, ZV)
              [] mn.k = "t" -> cleanReadOnly(c, g)
              [] mn.k = "l" ->
                    LET r == lNodeLookup(mn.v, f.entry) IN
                    Ret(c, [v |-> r.v, ex |-> r.ex, ok |-> TRUE])
              [] OTHER -> Panic(c, "Map is in an invalid state"))
      [] f.pc = "ilRn" ->
            LET n == NextId(c) IN
            Call(AllocM(c, MainC(c.ret)), "ilRn2", Fgcas(f.i, f.main, n, f.h))
      [] f.pc = "ilRn2" -> IF c.ret THEN Goto(c, "il0") ELSE Ret(c, Retry)
      [] f.pc = "ilRetry" -> Ret(c, Retry)
ilookup(c) ==
    LET f == F(c) IN
    CASE f.pc = "il0" -> Call(c, "il1", FgcasRead(f.i, f.h))
      [] f.pc = "il1" ->
            LET main == c.ret
                mn   == c.M[main]
                g    == SetTop(c, [f EXCEPT !.main = main])
            IN
            (CASE mn.k = "c" ->
                    LET cn == mn.v
                        fp == flagPos(f.entry.hash, f.lev, cn.bmp)
                    IN
                    IF fp.flag \notin cn.bmp THEN Ret(c, ZV)
                    ELSE LET branch == cn.slice[fp.pos + 1] IN
                         IF branch.t = "i"
                         THEN IF c.R[f.h].readOnly \/ f.startGen = c.I[branch.x].gen
                              THEN TailCall(c, Filookup(branch.x, f.entry, f.lev + w, f.i,
                                                        f.startGen, f.h))
                              ELSE Call(g, "ilRn", Frenewed(cn, f.startGen, f.h))
                         ELSE IF eqFunc(branch.x.key, f.entry.key)
                              THEN Ret(c, Found(branch.x.value))
                              ELSE Ret(c, ZV)
              [] mn.k = "t" -> cleanReadOnly(c, g)
              [] mn.k = "l" ->
                    LET r == lNodeLookup(mn.v, f.entry) IN
                    Ret(c, [v |-> r.v, ex |-> r.ex, ok |-> TRUE])
              [] OTHER -> Panic(c, "Map is in an invalid state"))
      [] f.pc = "ilRn" ->
            LET n == NextId(c) IN
            Call(AllocM(c, MainC(c.ret)), "ilRn2", Fgcas(f.i, f.main, n, f.h))
      [] f.pc = "ilRn2" -> IF c.ret THEN Goto(c, "il0") ELSE Ret(c, Retry)
      [] f.pc = "ilRetry" -> Ret(c, Retry)

iremove(c) ==
    LET f == F(c) IN
    CASE f.pc = "ir0" -> Call(c, "ir1", FgcasRead(f.i, f.h))
      [] f.pc = "ir1" ->
            LET main == c.ret
                mn   == c.M[main]
                g    == SetTop(c, [f EXCEPT !.main = main])
            IN
            (CASE mn.k = "c" ->
                    LET cn == mn.v
                        fp == flagPos(f.entry.hash, f.lev, cn.bmp)
                    IN
                    IF fp.flag \notin cn.bmp THEN Ret(c, ZV)
                    ELSE LET branch == cn.slice[fp.pos + 1] IN
                         IF branch.t = "i"
                         THEN IF f.startGen = c.I[branch.x].gen
                              THEN TailCall(c, Firemove(branch.x, f.entry, f.lev + w, f.i,
                                                        f.startGen, f.h))
                              ELSE Call(g, "irRn", Frenewed(cn, f.startGen, f.h))
                         ELSE IF ~eqFunc(branch.x.key, f.entry.key) THEN Ret(c, ZV)
                              ELSE LET ncn  == removed(cn, fp.pos, fp.flag, c.I[f.i].gen)
                                       cntr == NextId(c)
                                       g1   == SetTop(c, [f EXCEPT !.main = main,
                                                                    !.val = branch.x.value])
                                   IN Call(AllocM(g1, toContracted(ncn, f.lev)), "irDone",
                                           Fgcas(f.i, main, cntr, f.h))
              [] mn.k = "t" ->
                    IF f.parent = Nil THEN Panic(c, "nil pointer dereference")
                    ELSE Call(g, "irRetry", Fclean(f.parent, f.lev - w, f.h))
              [] mn.k = "l" ->
                    LET nl  == lNodeRemoved(mn.v, f.entry)
                        nln == IF Len(nl) = 1 THEN entomb(nl[1]) ELSE MainL(nl)
                        n   == NextId(c)
                    IN Call(AllocM(g, nln), "irL", Fgcas(f.i, main, n, f.h))
              [] OTHER -> Panic(c, "Map is in an invalid state"))
      [] f.pc = "irRn" ->
            LET n == NextId(c) IN
            Call(AllocM(c, MainC(c.ret)), "irRn2", Fgcas(f.i, f.main, n, f.h))
      [] f.pc = "irRn2" -> IF c.ret THEN Goto(c, "ir0") ELSE Ret(c, Retry)
      [] f.pc = "irDone" ->
            IF c.ret
            THEN IF f.parent # Nil THEN Call(c, "irChk", FgcasRead(f.i, f.h))
                 ELSE Ret(c, Found(f.val))
            ELSE Ret(c, Retry)
      [] f.pc = "irChk" ->
            IF c.M[c.ret].k = "t"
            THEN Call(c, "irRet", FcleanParent(f.parent, f.i, f.entry.hash, f.lev - w, f.h,
                                               f.startGen))
            ELSE Ret(c, Found(f.val))
      [] f.pc = "irRet" -> Ret(c, Found(f.val))
      [] f.pc = "irRetry" -> Ret(c, Retry)
      [] f.pc = "irL" ->
            IF c.ret
            THEN LET r == lNodeLookup(c.M[f.main].v, f.entry) IN
                 Ret(c, [v |-> r.v, ex |-> r.ex, ok |-> TRUE])
            ELSE Ret(c, ZV)

----------------------------------------------------------------------------
(* Compression *)

toCompressed(c) ==
    LET f == F(c) IN
    CASE f.pc = "tc0" ->
            IF f.idx > Len(f.cn.slice)
            THEN Ret(c, toContracted([bmp |-> f.cn.bmp, slice |-> f.acc, gen |-> Nil], f.lev))
            ELSE IF f.cn.slice[f.idx].t = "s"
            THEN SetTop(c, [f EXCEPT !.acc = Append(f.acc, f.cn.slice[f.idx]),
                                     !.idx = f.idx + 1])
            ELSE Goto(c, "tc1")
      [] f.pc = "tc1" ->
            LET inode == f.cn.slice[f.idx].x
                main  == c.I[inode].main
            IN SetTop(c, [f EXCEPT !.acc = Append(f.acc, resurrect(inode, c.M[main])),
                                   !.idx = f.idx + 1, !.pc = "tc0"])

clean(c) ==
    LET f == F(c) IN
    CASE f.pc = "cl0" -> Call(c, "cl1", FgcasRead(f.i, f.h))
      [] f.pc = "cl1" ->
            IF c.M[c.ret].k = "c"
            THEN Call(SetTop(c, [f EXCEPT !.main = c.ret]), "cl2",
                      FtoCompressed(c.M[c.ret].v, f.lev))
            ELSE Ret(c, TRUE)
      [] f.pc = "cl2" ->
            LET n == NextId(c) IN
            TailCall(AllocM(c, c.ret), Fgcas(f.i, f.main, n, f.h))

(* a cleanParent that puts the contracted node in the place of the        *)
(* tombstone instead of in the parent                                      *)
cleanParentInPlace(c) ==
    LET f == F(c) IN
    CASE f.pc = "cp0" -> SetTop(c, [f EXCEPT !.main = c.I[f.i].main, !.pc = "cp1"])
      [] f.pc = "cp1" ->
            LET pMain == c.I[f.p].main
                pm    == c.M[pMain]
            IN
            IF pm.k # "c" THEN Ret(c, Nil)
            ELSE LET fp == flagPos(f.hc, f.lev, pm.v.bmp) IN
                 IF fp.flag \notin pm.v.bmp THEN Ret(c, Nil)
                 ELSE LET sub == pm.v.slice[fp.pos + 1] IN
                      IF sub # IBranch(f.i) \/ c.M[f.main].k # "t" THEN Ret(c, Nil)
                      ELSE LET ncn == updated(pm.v, fp.pos, resurrect(f.i, c.M[f.main]),
                                              c.I[f.i].gen)
                               n   == NextId(c)
                           IN Call(AllocM(c, toContracted(ncn, f.lev)), "cp2",
                                   Fgcas(f.i, f.main, n, f.h))
      [] f.pc = "cp2" -> IF c.ret THEN Ret(c, Nil) ELSE Call(c, "cp3", FreadRoot(f.h))
      [] f.pc = "cp3" -> IF c.I[c.ret].gen # f.startGen THEN Ret(c, Nil) ELSE Goto(c, "cp0")

cleanParent(c) ==
    LET f == F(c) IN
    CASE f.pc = "cp0" -> SetTop(c, [f EXCEPT !.main = c.I[f.i].main, !.pc = "cp1"])
      [] f.pc = "cp1" ->
            LET pMain == c.I[f.p].main
                pm    == c.M[pMain]
            IN
            IF pm.k # "c" THEN Ret(c, Nil)
            ELSE LET fp == flagPos(f.hc, f.lev, pm.v.bmp) IN
                 IF fp.flag \notin pm.v.bmp THEN Ret(c, Nil)
                 ELSE LET sub == pm.v.slice[fp.pos + 1] IN
                      IF sub # IBranch(f.i) \/ c.M[f.main].k # "t" THEN Ret(c, Nil)
                      ELSE LET ncn == updated(pm.v, fp.pos, resurrect(f.i, c.M[f.main]),
                                              c.I[f.i].gen)
                               n   == NextId(c)
                           IN Call(AllocM(c, toContracted(ncn, f.lev)), "cp2",
                                   Fgcas(f.p, pMain, n, f.h))
      [] f.pc = "cp2" -> IF c.ret THEN Ret(c, Nil) ELSE Call(c, "cp3", FreadRoot(f.h))
      [] f.pc = "cp3" -> IF c.I[c.ret].gen # f.startGen THEN Ret(c, Nil) ELSE Goto(c, "cp0")

----------------------------------------------------------------------------
(* The operations of a Map *)

newMap(c, dst, root, readOnly) ==
    [c EXCEPT !.R[dst] = [root |-> root, readOnly |-> readOnly, live |-> TRUE]]

insert(c) ==
    LET f == F(c) IN
    CASE f.pc = "in0" -> Call(c, "in1", FreadRoot(f.h))
      [] f.pc = "in1" ->
            Call(c, "in2", Fiinsert(c.ret, f.entry, 0, Nil, c.I[c.ret].gen, f.h))
      [] f.pc = "in2" -> IF c.ret THEN Ret(c, ZV) ELSE Goto(c, "in0")

lookup(c) ==
    LET f == F(c) IN
    CASE f.pc = "lk0" -> Call(c, "lk1", FreadRoot(f.h))
      [] f.pc = "lk1" ->
            Call(c, "lk2", Filookup(c.ret, f.entry, 0, Nil, c.I[c.ret].gen, f.h))
      [] f.pc = "lk2" -> IF c.ret.ok THEN Ret(c, c.ret) ELSE Goto(c, "lk0")

remove(c) ==
    LET f == F(c) IN
    CASE f.pc = "rm0" -> Call(c, "rm1", FreadRoot(f.h))
      [] f.pc = "rm1" ->
            Call(c, "rm2", Firemove(c.ret, f.entry, 0, Nil, c.I[c.ret].gen, f.h))
      [] f.pc = "rm2" -> IF c.ret.ok THEN Ret(c, c.ret) ELSE Goto(c, "rm0")

(* no check of the handle's mode *)
NoAssert(c, h) == ""
assertReadWrite(c, h) == IF c.R[h].readOnly THEN "Cannot modify read-only clone" ELSE ""

Set(c) ==
    LET f == F(c) IN
    IF assertReadWrite(c, f.h) # "" THEN Panic(c, assertReadWrite(c, f.h))
    ELSE TailCall(c, Finsert(f.h, mapEntry(f.k, f.v)))

Get(c) == LET f == F(c) IN TailCall(c, Flookup(f.h, mapEntry(f.k, Zero)))

Delete(c) ==
    LET f == F(c) IN
    IF assertReadWrite(c, f.h) # "" THEN Panic(c, assertReadWrite(c, f.h))
    ELSE TailCall(c, Fremove(f.h, mapEntry(f.k, Zero)))

Clone(c) == LET f == F(c) IN TailCall(c, Fclone(f.h, c.R[f.h].readOnly, f.dst))

RClone(c) == LET f == F(c) IN TailCall(c, Fclone(f.h, TRUE, f.dst))

clone(c) ==
    LET f == F(c) IN
    CASE f.pc = "cn0" ->
            IF f.readOnly /\ c.R[f.h].readOnly
            THEN Ret([c EXCEPT !.R[f.dst] = c.R[f.h]], ZV)
            ELSE Goto(c, "cnLoop")
      [] f.pc = "cnLoop" -> Call(c, "cn1", FreadRoot(f.h))
      [] f.pc = "cn1" ->
            Call(SetTop(c, [f EXCEPT !.root = c.ret]), "cn2", FgcasRead(c.ret, f.h))
      [] f.pc = "cn2" ->
            LET gen == NextId(c) IN
            Call(SetTop(AllocG(c), [f EXCEPT !.main = c.ret]), "cn3",
                 FcopyToGen(f.root, gen, f.h))
      [] f.pc = "cn3" -> Call(c, "cn4", FrdcssRoot(f.h, f.root, f.main, c.ret))
      [] f.pc = "cn4" ->
            IF c.ret
            THEN IF f.readOnly THEN Ret(newMap(c, f.dst, f.root, TRUE), ZV)
                 ELSE Call(c, "cn5", FreadRoot(f.h))
            ELSE Goto(c, "cnLoop")
      [] f.pc = "cn5" ->
            LET gen == NextId(c) IN
            Call(AllocG(c), "cn6", FcopyToGen(c.ret, gen, f.h))
      [] f.pc = "cn6" -> Ret(newMap(c, f.dst, c.ret, FALSE), ZV)

(* a Clear that returns at once and leaves the root alone *)
ClearNothing(c) == Ret(c, ZV)
Clear(c) ==
    LET f == F(c) IN
    CASE f.pc = "clr0" ->
            IF assertReadWrite(c, f.h) # "" THEN Panic(c, assertReadWrite(c, f.h))
            ELSE Goto(c, "clrLoop")
      [] f.pc = "clrLoop" -> Call(c, "clr1", FreadRoot(f.h))
      [] f.pc = "clr1" ->
            LET gen == NextId(c)
                c1  == AllocG(c)
                m   == NextId(c1)
                c2  == AllocM(c1, MainC(EmptyC(gen)))
                nr  == NextId(c2)
                c3  == AllocI(c2, INode(m, gen))
            IN Call(SetTop(c3, [f EXCEPT !.root = c.ret, !.newRoot = nr]), "clr2",
                    FgcasRead(c.ret, f.h))
      [] f.pc = "clr2" -> Call(c, "clr3", FrdcssRoot(f.h, f.root, c.ret, f.newRoot))
      [] f.pc = "clr3" -> IF c.ret THEN Ret(c, ZV) ELSE Goto(c, "clrLoop")

(* Len: the Iterator over a read-only clone, counted.  its is the stack of *)
(* iterator frames, out the entries Next has produced.                     *)
IterFrame(it, iNode, slice, lNode) ==
    [iter |-> it, iNode |-> iNode, slice |-> slice, lNode |-> lNode]
(* every frame dropped, not only the last *)
PopAll(s) == <<>>
Pop(s) == SubSeq(s, 1, Len(s) - 1)

Len_(c) ==
    LET f == F(c) IN
    CASE f.pc = "ln0" -> Call(c, "ln1", Fclone(f.h, TRUE, f.tmp))
      [] f.pc = "ln1" -> Call(c, "ln2", FreadRoot(f.tmp))
      [] f.pc = "ln2" ->
            SetTop(c, [f EXCEPT !.its = <<IterFrame("mainIter", c.ret, <<>>, <<>>)>>,
                                !.pc = "ln3"])
      [] f.pc = "ln3" ->
            IF f.its = <<>> THEN Ret(c, [v |-> Len(f.out), out |-> f.out, ex |-> TRUE, ok |-> TRUE])
            ELSE LET n  == Len(f.its)
                     it == f.its[n]
                 IN
                 (CASE it.iter = "mainIter" ->
                        IF it.iNode = Nil THEN SetTop(c, [f EXCEPT !.its = Pop(f.its)])
                        ELSE Call(SetTop(c, [f EXCEPT !.its[n].iNode = Nil]), "ln4",
                                  FgcasRead(it.iNode, f.h))
                   [] it.iter = "sliceIter" ->
                        IF it.slice = <<>> THEN SetTop(c, [f EXCEPT !.its = Pop(f.its)])
                        ELSE LET b == it.slice[1]
                                 s1 == [f.its EXCEPT ![n].slice = Tail(it.slice)]
                             IN IF b.t = "i"
                                THEN SetTop(c, [f EXCEPT !.its =
                                        Append(s1, IterFrame("mainIter", b.x, <<>>, <<>>))])
                                ELSE SetTop(c, [f EXCEPT !.its = s1,
                                                         !.out = Append(f.out, b.x)])
                   [] it.iter = "listIter" ->
                        IF it.lNode = <<>> THEN SetTop(c, [f EXCEPT !.its = Pop(f.its)])
                        ELSE SetTop(c, [f EXCEPT !.its[n].lNode = Tail(it.lNode),
                                                 !.out = Append(f.out, it.lNode[1])]))
      [] f.pc = "ln4" ->
            LET mn == c.M[c.ret] IN
            (CASE mn.k = "c" ->
                    SetTop(c, [f EXCEPT !.its = Append(f.its,
                                            IterFrame("sliceIter", Nil, mn.v.slice, <<>>)),
                                        !.pc = "ln3"])
              [] mn.k = "l" ->
                    SetTop(c, [f EXCEPT !.its = Append(f.its,
                                            IterFrame("listIter", Nil, <<>>, mn.v)),
                                        !.pc = "ln3"])
              [] mn.k = "t" ->
                    SetTop(c, [f EXCEPT !.out = Append(f.out, mn.v), !.pc = "ln3"])
              [] OTHER -> Panic(c, "unreachable"))

----------------------------------------------------------------------------
(* Running a thread's code *)

Handle(c) ==
    LET fn == F(c).fn IN
    CASE fn = "gcasRead" -> gcasRead(c)
      [] fn = "gcasComplete" -> gcasComplete(c)
      [] fn = "gcas" -> gcas(c)
      [] fn = "rdcssReadRoot" -> rdcssReadRoot(c)
      [] fn = "rdcssComplete" -> rdcssComplete(c)
      [] fn = "rdcssRoot" -> rdcssRoot(c)
      [] fn = "copyToGen" -> copyToGen(c)
      [] fn = "renewed" -> renewed(c)
      [] fn = "toCompressed" -> toCompressed(c)
      [] fn = "clean" -> clean(c)
      [] fn = "cleanParent" -> cleanParent(c)
      [] fn = "iinsert" -> iinsert(c)
      [] fn = "ilookup" -> ilookup(c)
      [] fn = "iremove" -> iremove(c)
      [] fn = "insert" -> insert(c)
      [] fn = "lookup" -> lookup(c)
      [] fn = "remove" -> remove(c)
      [] fn = "clone" -> clone(c)
      [] fn = "Set" -> Set(c)
      [] fn = "Get" -> Get(c)
      [] fn = "Delete" -> Delete(c)
      [] fn = "Clone" -> Clone(c)
      [] fn = "RClone" -> RClone(c)
      [] fn = "Clear" -> Clear(c)
      [] fn = "Len" -> Len_(c)

Stopped(c) == c.err # "" \/ c.stk = <<>>
AtAccess(c) == ~Stopped(c) /\ F(c).pc \in AtomicPcs

(* the thread-local code up to the next access to shared memory *)
RECURSIVE Local(_)
Local(c0) ==
    CHOOSE r \in {IF Stopped(c) \/ AtAccess(c) THEN c ELSE Local(Handle(c)) : c \in {c0}} : TRUE

(* one access to shared memory and the local code that follows it *)
Access(c) == Local(Handle(c))

----------------------------------------------------------------------------
(* Programs: what each thread calls, in order.  An instruction of phase p  *)
(* is invoked only once every instruction of an earlier phase, of every    *)
(* thread, has returned (the joins of the tests).                          *)

NH == 3     \* handle slots a program can name; slot NH+1+t is thread t's Len iterator

Op(ph, op, h, k, v, dst) == [ph |-> ph, op |-> op, h |-> h, k |-> k, v |-> v, dst |-> dst]
ISet(ph, h, k, v) == Op(ph, "Set", h, k, v, 0)
IGet(ph, h, k) == Op(ph, "Get", h, k, 0, 0)
IDelete(ph, h, k) == Op(ph, "Delete", h, k, 0, 0)
IClone(ph, h, dst) == Op(ph, "Clone", h, "", 0, dst)
IRClone(ph, h, dst) == Op(ph, "RClone", h, "", 0, dst)
IClear(ph, h) == Op(ph, "Clear", h, "", 0, 0)
ILen(ph, h) == Op(ph, "Len", h, "", 0, 0)
IIter(ph, h) == Op(ph, "Iter", h, "", 0, 0)
(* Iterator() and the loop over Next() as two calls: Iterator() is the     *)
(* RClone into handle it; the loop then walks that snapshot, reading the   *)
(* I-nodes through the map h the iterator was made from.  The snapshot is  *)
(* read-only, so its root is the one Iterator() put in the first frame.    *)
IIterator(ph, h, it) == Op(ph, "RClone", h, "", 0, it)
INext(ph, h, it) == Op(ph, "Next", h, "", 0, it)
NoOp == Op(0, "none", 0, "", 0, 0)

(* a, y1, y2 are set, a read-only snapshot bumps the root generation, a is *)
(* overwritten and a2 pushes a into a new I-node; then Set(a3) runs        *)
(* against a Get that descends into the old branch of y1.                  *)
LostUpdate ==
    << <<ISet(0, 1, "a", 1), ISet(1, 1, "y1", 1), ISet(2, 1, "y2", 1), IRClone(3, 1, 2),
         ISet(4, 1, "a", 2), ISet(5, 1, "a2", 1), ISet(6, 1, "a3", 1), IGet(7, 1, "a3")>>,
       <<IGet(6, 1, "y1")>> >>

(* two writers set the same nine keys, a third thread calls Clone and      *)
(* RClone; at the end Len and Get                                          *)
Stress ==
    << <<ISet(0, 1, "y1", 1), ISet(1, 1, "y2", 1), ISet(2, 1, "a", 1), ISet(9, 1, "a3", 1),
         ISet(11, 1, "a2", 1), ISet(12, 1, "a5", 1), ISet(13, 1, "p1", 1),
         ISet(14, 1, "p2", 1), ISet(15, 1, "a4", 1), ILen(16, 1), IGet(17, 1, "a3")>>,
       <<ISet(4, 1, "a", 1), ISet(5, 1, "a2", 1), ISet(6, 1, "p1", 1), ISet(7, 1, "p2", 1),
         ISet(8, 1, "a4", 1), ISet(9, 1, "y1", 1), ISet(13, 1, "a3", 1),
         ISet(14, 1, "y2", 1), ISet(15, 1, "a5", 1)>>,
       <<IClone(3, 1, 2), IRClone(10, 1, 3)>> >>

(* Clone while another thread reads; afterwards the source is changed *)
CloneThenWrite ==
    << <<ISet(0, 1, "a", 1), ISet(1, 1, "a2", 1), IClone(2, 1, 2), ISet(3, 1, "a2", 2),
         IGet(4, 2, "a2")>>,
       <<IGet(2, 1, "a")>> >>

(* Clone while another thread writes to the source *)
CloneWhileWrite ==
    << <<ISet(0, 1, "a", 1), IClone(1, 1, 2), IGet(2, 2, "b")>>,
       <<ISet(1, 1, "b", 1)>> >>

(* a snapshot is written, then a snapshot of the snapshot is taken while   *)
(* another thread reads, and the first snapshot is written again           *)
CloneOfClone ==
    << <<ISet(0, 1, "a", 1), ISet(1, 1, "a2", 1), IClone(2, 1, 2), ISet(3, 2, "b", 1),
         IGet(4, 1, "b"), IClone(5, 2, 3), ISet(6, 2, "a2", 2), IGet(7, 3, "a2")>>,
       <<IGet(5, 2, "a")>> >>

(* a read-only snapshot taken and read while the source is written *)
ReadOnlySnapshot ==
    << <<ISet(0, 1, "a", 1), ISet(1, 1, "a2", 1), IRClone(2, 1, 2), IGet(3, 2, "a2"),
         IGet(4, 2, "a")>>,
       <<ISet(2, 1, "a2", 2), ISet(3, 1, "a", 2), IGet(4, 2, "a2")>> >>

(* a read-only snapshot read while the source is cleared *)
ReadOnlyClear ==
    << <<ISet(0, 1, "a", 1), IRClone(1, 1, 2), IGet(2, 2, "a"), ILen(3, 2)>>,
       <<IClear(2, 1)>> >>

(* mutations of a read-only snapshot and of its clone *)
ReadOnlyMutation ==
    << <<ISet(0, 1, "a", 1), IRClone(1, 1, 2), ISet(2, 2, "a", 2), IDelete(3, 2, "a"),
         IClear(4, 2), IClone(5, 2, 3), ISet(6, 3, "b", 2), IDelete(7, 3, "a"),
         IGet(8, 3, "a"), IGet(9, 2, "a"), ILen(10, 2)>> >>

(* deletes that leave a tombstone and contract a branch, with a reader *)
DeleteAndContract ==
    << <<ISet(0, 1, "a", 1), ISet(1, 1, "a2", 2), ISet(2, 1, "b", 1), IDelete(3, 1, "a2"),
         IGet(4, 1, "a2"), IGet(4, 1, "a"), IDelete(4, 1, "a2"), ISet(5, 1, "a2", 1),
         IGet(6, 1, "a2"), IDelete(6, 1, "a"), IDelete(6, 1, "a2"), IDelete(6, 1, "b"),
         ILen(6, 1)>>,
       <<IGet(3, 1, "a")>> >>

(* keys with one 32-bit hash, kept in a collision list *)
HashCollision ==
    << <<ISet(0, 1, "c1", 1), ISet(1, 1, "c2", 3), ISet(2, 1, "c1", 2), IGet(3, 1, "c1"),
         IGet(3, 1, "c2"), ILen(3, 1), ISet(3, 1, "c3", 4), IDelete(4, 1, "c1"),
         IGet(5, 1, "c1"), IGet(5, 1, "c2"), ILen(5, 1), IDelete(5, 1, "c3"),
         IDelete(5, 1, "c2"), IGet(5, 1, "c3")>> >>

(* a Delete from a collision list while a third colliding key is set *)
HashCollisionDelete ==
    << <<ISet(0, 1, "c1", 1), ISet(1, 1, "c2", 3), IDelete(2, 1, "c1"), IGet(3, 1, "c1")>>,
       <<ISet(2, 1, "c3", 4)>> >>

(* unordered sets, gets and deletes of one key next to a colliding one *)
Concurrent ==
    << <<ISet(0, 1, "a2", 3), ISet(1, 1, "a", 1), IDelete(1, 1, "a")>>,
       <<IGet(1, 1, "a"), ISet(1, 1, "a", 2), IGet(1, 1, "a")>> >>

(* a Delete whose key sits in a branch another thread renews *)
LostDelete ==
    << <<ISet(0, 1, "a", 1), ISet(1, 1, "y1", 1), ISet(2, 1, "y2", 1), IRClone(3, 1, 2),
         ISet(4, 1, "a", 2), ISet(5, 1, "a2", 1), ISet(5, 1, "a3", 1), IDelete(6, 1, "a3"),
         IGet(7, 1, "a3")>>,
       <<IGet(6, 1, "y1")>> >>

(* iterations over C-nodes, a collision list and a tombstone, on the map   *)
(* and on a read-only snapshot of it                                       *)
Iterate ==
    << <<ISet(0, 1, "a", 1), ISet(1, 1, "a2", 2), ISet(2, 1, "c1", 1), ISet(3, 1, "c2", 3),
         IIter(4, 1), IDelete(5, 1, "c2"), IIter(6, 1), IRClone(7, 1, 2), IIter(8, 2),
         IGet(9, 2, "c1"), ILen(10, 2), IIter(11, 1)>> >>

(* an iteration and a Len of one read-only snapshot at the same time, then *)
(* an iteration of the map while it is read                                *)
IterateTwo ==
    << <<ISet(0, 1, "a", 1), ISet(1, 1, "b", 2), IRClone(2, 1, 2), IIter(3, 2), IIter(4, 1)>>,
       <<ILen(3, 2), IGet(4, 1, "a")>> >>

(* TestIterator with a writer: Set, Delete and Clear run on the map while *)
(* an iterator made before them is walked                                 *)
IterateWhileWriting ==
    << <<ISet(0, 1, "a", 1), ISet(1, 1, "a2", 2), ISet(2, 1, "c1", 1),
         IIterator(3, 1, 2), INext(4, 1, 2), IIter(5, 1)>>,
       <<ISet(4, 1, "a", 3), IDelete(4, 1, "a2"), ISet(4, 1, "b", 1), IClear(4, 1)>> >>

(* TestClear, with a reader of the map running while it is cleared *)
ClearThenRead ==
    << <<ISet(0, 1, "a", 1), ISet(1, 1, "a2", 2), ISet(2, 1, "c1", 1), IClone(3, 1, 2),
         IRClone(4, 1, 3), IClear(5, 1), ILen(6, 1), IGet(7, 1, "a"), IGet(8, 1, "a2"),
         IGet(9, 1, "c1"), ILen(10, 2), IGet(11, 2, "a2"), ILen(12, 3), IGet(13, 3, "c1")>>,
       <<IGet(5, 1, "a")>> >>

(* a Clear while another thread reads the cleared key and then sets a new one *)
ClearOnce ==
    << <<ISet(0, 1, "a", 1), IClear(1, 1), IGet(2, 1, "b")>>,
       <<IGet(1, 1, "a"), ISet(1, 1, "b", 1)>> >>

(* a read-only snapshot is taken and read while a Set that began before it *)
(* is still under way in a branch the snapshot shares with the map         *)
SnapshotDuringSet ==
    << <<ISet(0, 1, "a", 1), ISet(1, 1, "a2", 1), IRClone(2, 1, 2), IGet(2, 2, "a"),
         ILen(2, 2)>>,
       <<ISet(2, 1, "a", 2)>> >>

(* two deletes in a three-level branch (a3 and a4 share two hash chunks,   *)
(* a2 one): one leaves a tombstone and cleans the parent, which is the     *)
(* I-node the other removes a2 from; the first then takes a snapshot       *)
CleanOverPending ==
    << <<ISet(0, 1, "a3", 1), ISet(0, 1, "a4", 1), ISet(0, 1, "a2", 1), IDelete(1, 1, "a4"),
         IRClone(1, 1, 2)>>,
       <<IDelete(1, 1, "a2")>> >>

(* two goroutines delete the same key at the same time: a key that shares  *)
(* a branch with another one, a key of a collision list, a key at the root *)
ConcurrentDelete ==
    << <<ISet(0, 1, "a", 1), ISet(0, 1, "a2", 2), ISet(0, 1, "c1", 1), ISet(0, 1, "c2", 3),
         ISet(0, 1, "b", 1), IDelete(1, 1, "a"), IDelete(2, 1, "c1"), IDelete(3, 1, "b")>>,
       <<IDelete(1, 1, "a"), IDelete(2, 1, "c1"), IDelete(3, 1, "b")>> >>

Scenarios ==
    <<LostUpdate, Stress, CloneThenWrite, CloneWhileWrite, CloneOfClone,
      ReadOnlySnapshot, ReadOnlyClear, ReadOnlyMutation, DeleteAndContract,
      HashCollision, HashCollisionDelete, Concurrent, LostDelete, Iterate, IterateTwo,
      IterateWhileWriting, ClearThenRead, ClearOnce, SnapshotDuringSet,
      CleanOverPending, ConcurrentDelete>>

(* The calls one thread makes one after the other in TestCtrie, TestSetLNode *)
(* and TestSetTNode, over keys that share a hash chunk (a, a2) and keys     *)
(* that share the whole hash (c1, c2).  A sequential program fills the map  *)
(* and then makes SeqLen of these calls in any order.                       *)
SeqLen == 4
SeqFill == <<ISet(0, 1, "a", 1), ISet(0, 1, "a2", 1), ISet(0, 1, "c1", 1), ISet(0, 1, "c2", 2)>>
SeqCalls ==
    <<ISet(0, 1, "a2", 2), ISet(0, 1, "c2", 2), IDelete(0, 1, "a2"), IDelete(0, 1, "c1"),
      IDelete(0, 1, "c2"), IGet(0, 1, "a2"), IGet(0, 1, "c2"), ILen(0, 1), IClear(0, 1)>>
SeqIndex == (Len(Scenarios) + 1) .. (Len(Scenarios) + Len(SeqCalls))

(* Two goroutines snapshot one map at the same time.  Each call may have   *)
(* to start over any number of times, so the run is checked with the       *)
(* memory of unused objects taken again.                                   *)
TwoSnapshots == << <<IRClone(0, 1, 2)>>, <<IRClone(0, 1, 3)>> >>
LiveIndex == {Len(Scenarios) + Len(SeqCalls) + 1}

(* Two goroutines delete from one map while a third snapshots it: both     *)
(* deletes read the root before the snapshot and write after it.  The Get  *)
(* that follows meets the tombstone a failed cleanParent left behind.      *)
SnapshotOverDeletes ==
    << <<ISet(0, 1, "y1", 1), ISet(0, 1, "y2", 1), ISet(0, 1, "b", 1), IDelete(1, 1, "y2"),
         IGet(2, 1, "y1")>>,
       <<IDelete(1, 1, "b")>>,
       <<IRClone(1, 1, 2)>> >>

(* Two goroutines delete one key of a collision list while a third sets    *)
(* another key of that list.                                               *)
DeletesOverSet ==
    << <<ISet(0, 1, "c1", 1), ISet(0, 1, "c2", 3), IDelete(1, 1, "c1"), IGet(2, 1, "c1")>>,
       <<IDelete(1, 1, "c1")>>,
       <<ISet(1, 1, "c3", 4)>> >>
RaceIndex == {Len(Scenarios) + Len(SeqCalls) + 2, Len(Scenarios) + Len(SeqCalls) + 3}

(* the program with index i: a scenario, or (when the calls are chosen one *)
(* at a time) the call chosen for the thread's next position               *)
Program(i) ==
    CHOOSE p \in {IF i <= Len(S) THEN S[i]
                  ELSE IF i \in LiveIndex THEN TwoSnapshots
                  ELSE IF i = Len(S) + Len(SeqCalls) + 2 THEN SnapshotOverDeletes
                  ELSE IF i \in RaceIndex THEN DeletesOverSet
                  ELSE << SeqFill \o [j \in 1 .. SeqLen |-> SeqCalls[i - Len(S)]] >> :
                  S \in {Scenarios}} : TRUE

Prog(t) ==
    CHOOSE q \in {IF t + 1 <= Len(p) THEN p[t + 1] ELSE <<>> : p \in {Program(sc)}} : TRUE
HasOp(t) == ip[t] <= Len(Prog(t))
CurOp(t) == Prog(t)[ip[t]]
Running(t) == stack[t] # <<>>

OpFrame(o, t) ==
    CASE o.op = "Set" -> [fn |-> "Set", pc |-> "op", h |-> o.h, k |-> o.k, v |-> o.v]
      [] o.op = "Get" -> [fn |-> "Get", pc |-> "op", h |-> o.h, k |-> o.k]
      [] o.op = "Delete" -> [fn |-> "Delete", pc |-> "op", h |-> o.h, k |-> o.k]
      [] o.op = "Clone" -> [fn |-> "Clone", pc |-> "op", h |-> o.h, dst |-> o.dst]
      [] o.op = "RClone" -> [fn |-> "RClone", pc |-> "op", h |-> o.h, dst |-> o.dst]
      [] o.op = "Clear" -> FClear(o.h)
      [] o.op \in {"Len", "Iter"} -> FLen(o.h, NH + 1 + t)
      [] o.op = "Next" -> [FLen(o.h, o.dst) EXCEPT !.pc = "ln1"]

----------------------------------------------------------------------------
(* Bookkeeping for the properties: what each handle is known to hold.      *)
(* exp[h][k] is 0 when k is known absent, v > 0 when known to map to v,    *)
(* and Unknown while an operation that may change it is in progress or     *)
(* after operations whose order the calls and returns do not fix.          *)

NoExp == [tag |-> "unknown", v |-> 0]
AllUnknown == [k \in Keys |-> Unknown]
AllAbsent == [k \in Keys |-> 0]
IdleGh == [clean |-> TRUE, quiet |-> TRUE, expect |-> NoExp, expectC |-> NoExp,
           snap |-> AllUnknown, snapC |-> AllUnknown]
NoHandle == [kind |-> "none", src |-> 0, dirty |-> {}]
NoHist == [op |-> NoOp, res |-> [tag |-> "none", v |-> 0], err |-> "",
           expect |-> NoExp, expectC |-> NoExp, expectI |-> NoExp, n |-> 0,
           quiet |-> FALSE, held |-> {},
           before |-> [op |-> NoOp, res |-> [tag |-> "none", v |-> 0]]]

ExpRes(e) ==
    IF e = Unknown THEN NoExp
    ELSE IF e = 0 THEN [tag |-> "absent", v |-> 0] ELSE [tag |-> "val", v |-> e]
LenExp(ex) ==
    IF \E k \in Keys : ex[k] = Unknown THEN NoExp
    ELSE [tag |-> "len", v |-> Cardinality({k \in Keys : ex[k] # 0})]
IterExp(ex) ==
    IF \E k \in Keys : ex[k] = Unknown THEN NoExp
    ELSE [tag |-> "iter", v |-> {<<k, ex[k]>> : k \in {x \in Keys : ex[x] # 0}}]
Expect(o, ex) ==
    CASE o.op \in {"Get", "Delete"} -> ExpRes(ex[o.h][o.k])
      [] o.op = "Len" -> LenExp(ex[o.h])
      [] o.op = "Iter" -> IterExp(ex[o.h])
      [] o.op = "Next" -> IterExp(ex[o.dst])
      [] OTHER -> NoExp

IsMut(o, R) == o.op \in {"Set", "Delete", "Clear"} /\ ~R[o.h].readOnly
IsClone(o) == o.op \in {"Clone", "RClone"}
Snapshots(o) == o.op \in {"Clone", "RClone", "Len", "Iter"}
Touches(o, k) == o.op = "Clear" \/ o.k = k
Conflict(o1, o2) ==
    /\ o1.h = o2.h
    /\ \/ o1.op = "Clear"
       \/ o2.op = "Clear"
       \/ o1.k = o2.k /\ ~(o1.op = "Set" /\ o2.op = "Set" /\ o1.v = o2.v)
Forget(ex, o) == [k \in Keys |-> IF Touches(o, k) THEN Unknown ELSE ex[k]]

(* what the invocation of mutator o does to another operation p in progress *)
Disturb(g, p, o) ==
    IF p.h # o.h THEN g
    ELSE IF p.op = "Next" THEN [g EXCEPT !.quiet = FALSE]
    ELSE LET read == (p.op \in {"Get", "Delete"} /\ Touches(o, p.k)) \/ p.op \in {"Len", "Iter"}
         IN [g EXCEPT !.clean = @ /\ ~(p.op \in {"Set", "Delete", "Clear"} /\ Conflict(o, p)),
                      !.quiet = FALSE,
                      !.expect = IF read THEN NoExp ELSE @,
                      !.expectC = IF read THEN NoExp ELSE @,
                      !.snap = IF IsClone(p) THEN Forget(@, o) ELSE @]

Ghost == [exp |-> exp, expC |-> expC, gh |-> gh, hinfo |-> hinfo, everSet |-> everSet]

OnInvoke(G, t, o) ==
    LET mut == IsMut(o, maps)
        others == {u \in Threads \ {t} : Running(u)}
        alone == ~\E u \in others : IsMut(CurOp(u), maps) /\ Conflict(o, CurOp(u))
    IN [exp |-> IF mut THEN [G.exp EXCEPT ![o.h] = Forget(@, o)] ELSE G.exp,
        expC |-> IF mut THEN [G.expC EXCEPT ![o.h] = Forget(@, o)] ELSE G.expC,
        gh |-> [u \in Threads |->
                  IF u = t
                  THEN [clean |-> alone,
                        quiet |-> ~\E u2 \in others :
                                     IsMut(CurOp(u2), maps) /\ CurOp(u2).h = o.h,
                        expect |-> Expect(o, G.exp),
                        expectC |-> Expect(o, G.expC),
                        snap |-> IF IsClone(o) THEN G.exp[o.h] ELSE AllUnknown,
                        snapC |-> AllUnknown]
                  ELSE IF mut /\ u \in others THEN Disturb(G.gh[u], CurOp(u), o)
                  ELSE G.gh[u]],
        hinfo |-> IF mut
                  THEN [h \in DOMAIN G.hinfo |->
                          IF h # o.h /\ G.hinfo[h].kind # "none"
                          THEN [G.hinfo[h] EXCEPT !.dirty = @ \cup {o.h}]
                          ELSE G.hinfo[h]]
                  ELSE G.hinfo,
        everSet |-> IF mut /\ o.op = "Set" THEN G.everSet \cup {<<o.k, o.v>>}
                    ELSE G.everSet]

(* The root swap of a clone in progress: the step that replaces the        *)
(* descriptor at a map's root by the descriptor's new root.  The clone's   *)
(* point-in-time contents are the source's at this instant.                *)
Committed(h, R1) ==
    LET r == maps[h].root IN
    /\ maps[h].live
    /\ inodes[r].isDesc
    /\ R1[h].root # r
    /\ R1[h].root = inodes[r].nv

OnCommit(G, R1) ==
    [G EXCEPT !.gh = [u \in Threads |->
        IF /\ Running(u)
           /\ Snapshots(CurOp(u))
           /\ Committed(CurOp(u).h, R1)
           /\ maps[CurOp(u).h].root[1] = u
        THEN [G.gh[u] EXCEPT !.snapC = G.expC[CurOp(u).h]]
        ELSE G.gh[u]]]

(* the entries of the tree below I-node i, as <<key, value>> pairs *)
RECURSIVE EntriesOf(_, _, _)
EntriesOf(I, M, i) ==
    IF I[i].isDesc THEN EntriesOf(I, M, I[i].old) ELSE
    LET mn == M[I[i].main] IN
    CASE mn.k = "c" ->
            UNION {IF mn.v.slice[j].t = "i" THEN EntriesOf(I, M, mn.v.slice[j].x)
                   ELSE {<<mn.v.slice[j].x.key, mn.v.slice[j].x.value>>} :
                   j \in 1 .. Len(mn.v.slice)}
      [] mn.k = "l" -> {<<mn.v[j].key, mn.v[j].value>> : j \in 1 .. Len(mn.v)}
      [] mn.k = "t" -> {<<mn.v.key, mn.v.value>>}
      [] OTHER -> {}

(* what a Len or an iteration is to find: the contents when its Iterator() *)
(* took the snapshot (on a read-only handle the handle is the snapshot)    *)
AtIterator(o, R, g) ==
    IF o.op \notin {"Len", "Iter", "Next"} THEN NoExp
    ELSE IF R[o.h].readOnly \/ o.op = "Next" THEN g.expectC
    ELSE IF o.op = "Len" THEN LenExp(g.snapC) ELSE IterExp(g.snapC)

OnReturn(G, t, o, res) ==
    LET g == G.gh[t]
        ok == res.tag # "panic"
        upd(ex) ==
            CASE ok /\ g.clean /\ o.op = "Set" -> [ex EXCEPT ![o.h][o.k] = o.v]
              [] ok /\ g.clean /\ o.op = "Delete" -> [ex EXCEPT ![o.h][o.k] = 0]
              [] ok /\ g.clean /\ o.op = "Clear" -> [ex EXCEPT ![o.h] = AllAbsent]
              [] o.op = "Get" /\ maps[o.h].readOnly /\ ex[o.h][o.k] = Unknown ->
                    \* a read-only map never changes: what was read once stays
                    [ex EXCEPT ![o.h][o.k] = res.v]
              [] OTHER -> ex
    IN [exp |-> IF ok /\ IsClone(o) THEN [G.exp EXCEPT ![o.dst] = g.snap] ELSE upd(G.exp),
        expC |-> IF ok /\ IsClone(o) THEN [G.expC EXCEPT ![o.dst] = g.snapC] ELSE upd(G.expC),
        gh |-> [G.gh EXCEPT ![t] = IdleGh],
        hinfo |-> IF ok /\ IsClone(o)
                  THEN [G.hinfo EXCEPT ![o.dst] =
                          [kind |-> o.op, src |-> o.h, dirty |-> {}]]
                  ELSE G.hinfo,
        everSet |-> G.everSet]

Res(o, c) ==
    IF c.err # "" THEN [tag |-> "panic", v |-> 0]
    ELSE CASE o.op \in {"Get", "Delete"} ->
                IF c.ret.ex THEN [tag |-> "val", v |-> c.ret.v]
                ELSE [tag |-> "absent", v |-> 0]
           [] o.op = "Len" -> [tag |-> "len", v |-> c.ret.v]
           [] o.op \in {"Iter", "Next"} ->
                [tag |-> "iter",
                 v |-> [i \in 1 .. Len(c.ret.out) |->
                          <<c.ret.out[i].key, c.ret.out[i].value>>]]
           [] OTHER -> [tag |-> "ok", v |-> 0]

----------------------------------------------------------------------------
(* The state machine *)

Handles == 1 .. (NH + NThreads)
Root0 == <<0, 1>>
Main0 == <<0, 0>>

InitWith(programs) ==
    /\ sc \in programs
    /\ inodes = (Root0 :> INode(Main0, Nil))
    /\ mains = (Main0 :> MainC(EmptyC(Nil)))
    /\ maps = [h \in Handles |->
                 IF h = 1 THEN [root |-> Root0, readOnly |-> FALSE, live |-> TRUE]
                 ELSE [root |-> Nil, readOnly |-> FALSE, live |-> FALSE]]
    /\ stack = [t \in Threads |-> <<>>]
    /\ ctr = [t \in Threads |-> IF t = 0 THEN 2 ELSE 0]
    /\ ip = [t \in Threads |-> 1]
    /\ hist = [t \in Threads |-> NoHist]
    /\ gh = [t \in Threads |-> IdleGh]
    /\ exp = [h \in Handles |-> IF h = 1 THEN AllAbsent ELSE AllUnknown]
    /\ expC = [h \in Handles |-> IF h = 1 THEN AllAbsent ELSE AllUnknown]
    /\ hinfo = [h \in Handles |-> IF h = 1 THEN [kind |-> "new", src |-> 0, dirty |-> {}]
                                  ELSE NoHandle]
    /\ everSet = {}

(* the most objects one step allocates (Clear: generation, C-node, root, *)
(* descriptor)                                                          *)
StepAllocs == 4

Cfg(t, stk) ==
    [t |-> t, stk |-> stk, ret |-> Nil, I |-> inodes, M |-> mains, R |-> maps,
     n |-> ctr[t], err |-> "", reuse |-> sc \in LiveIndex,
     free |-> IF sc \in LiveIndex
              THEN FreeIds(InUse(inodes, mains, maps, stack), t, StepAllocs) ELSE <<>>]

(* the objects of a kind still in use once thread t's step has taken the   *)
(* heap to c: the others are the garbage collector's                       *)
Kept(t, c) ==
    IF c.reuse
    THEN \E used \in {InUse(c.I, c.M, c.R, [stack EXCEPT ![t] = c.stk])} :
           /\ inodes' = [x \in {y \in DOMAIN c.I : <<"i", y>> \in used} |-> c.I[x]]
           /\ mains' = [x \in {y \in DOMAIN c.M : <<"m", y>> \in used} |-> c.M[x]]
    ELSE inodes' = c.I /\ mains' = c.M

(* the state after thread t's step has taken its configuration to c *)
Apply(t, c, invoked) ==
    \E o \in {CurOp(t)} :
    \E done \in {Stopped(c)} :
    \E res \in {IF done THEN Res(o, c) ELSE NoHist.res} :
    \E G1 \in {IF invoked THEN OnInvoke(Ghost, t, o) ELSE Ghost} :
    \E G2 \in {OnCommit(G1, c.R)} :
    \E G3 \in {IF done THEN OnReturn(G2, t, o, res) ELSE G2} :
       /\ c.n <= MaxAlloc
       /\ Kept(t, c)
       /\ maps' = c.R
       /\ ctr' = [ctr EXCEPT ![t] = c.n]
       /\ stack' = [stack EXCEPT ![t] = IF done THEN <<>> ELSE c.stk]
       /\ ip' = [ip EXCEPT ![t] = IF done THEN @ + 1 ELSE @]
       /\ sc' \in IF done /\ sc \in SeqIndex /\ ip[t] >= Len(SeqFill) THEN SeqIndex ELSE {sc}
       /\ hist' = IF done
                  THEN [hist EXCEPT ![t] =
                          [op |-> o, res |-> res, err |-> c.err,
                           expect |-> G2.gh[t].expect, expectC |-> G2.gh[t].expectC,
                           expectI |-> AtIterator(o, c.R, G2.gh[t]),
                           quiet |-> G2.gh[t].quiet,
                           held |-> IF o.op \in {"Len", "Iter", "Next"} /\ c.err = ""
                                    THEN EntriesOf(c.I, c.M, c.R[o.h].root)
                                    ELSE {},
                           n |-> ip[t],
                           before |-> [op |-> hist[t].op, res |-> hist[t].res]]]
                  ELSE hist
       /\ gh' = G3.gh
       /\ exp' = G3.exp
       /\ expC' = G3.expC
       /\ hinfo' = G3.hinfo
       /\ everSet' = G3.everSet

(* a thread calls the next operation of its program and runs it up to and  *)
(* including its first access to shared memory                             *)
Invoke(t) ==
    /\ ~Running(t)
    /\ HasOp(t)
    /\ \A u \in Threads \ {t} : HasOp(u) => CurOp(u).ph >= CurOp(t).ph
    /\ maps[CurOp(t).h].live
    /\ CurOp(t).op = "Next" => maps[CurOp(t).dst].live
    /\ \E c0 \in {Local(Cfg(t, <<OpFrame(CurOp(t), t)>>))} :
         \E c1 \in {IF Stopped(c0) THEN c0 ELSE Access(c0)} : Apply(t, c1, TRUE)

At(t, fn) == Running(t) /\ stack[t][Len(stack[t])].fn = fn
Step(t) ==
    \E c0 \in {Cfg(t, stack[t])} : \E c1 \in {Access(c0)} : Apply(t, c1, FALSE)

GcasRead(t) == At(t, "gcasRead") /\ Step(t)
GcasComplete(t) == At(t, "gcasComplete") /\ Step(t)
Gcas(t) == At(t, "gcas") /\ Step(t)
RdcssReadRoot(t) == At(t, "rdcssReadRoot") /\ Step(t)
RdcssComplete(t) == At(t, "rdcssComplete") /\ Step(t)
RdcssRoot(t) == At(t, "rdcssRoot") /\ Step(t)
ToCompressed(t) == At(t, "toCompressed") /\ Step(t)
CleanParent(t) == At(t, "cleanParent") /\ Step(t)

Next ==
    \E t \in Threads :
        \/ Invoke(t)
        \/ GcasRead(t)
        \/ GcasComplete(t)
        \/ Gcas(t)
        \/ RdcssReadRoot(t)
        \/ RdcssComplete(t)
        \/ RdcssRoot(t)
        \/ ToCompressed(t)
        \/ CleanParent(t)

Init == InitWith(1 .. Len(Scenarios))

Spec == Init /\ [][Next]_vars

(* one thread calling Set, Get, Delete, Len and Clear in any order *)
SeqInit == InitWith({Len(Scenarios) + 1})

SeqSpec == SeqInit /\ [][Next]_vars

(* Two concurrent snapshots, every goroutine scheduled again and again.    *)
(* No main node is written in these runs, so the steps of gcas,            *)
(* gcasComplete, toCompressed and cleanParent are never reached.           *)
LiveInit == InitWith(LiveIndex)

Scheduled(t) ==
    \/ Invoke(t)
    \/ GcasRead(t)
    \/ RdcssReadRoot(t)
    \/ RdcssComplete(t)
    \/ RdcssRoot(t)

LiveNext == \E t \in Threads : Scheduled(t)

LiveSpec == LiveInit /\ [][LiveNext]_vars /\ \A t \in Threads : WF_vars(Scheduled(t))

(* Two deletes interleaved at every atomic access with each other and the  *)
(* call of a third goroutine (a snapshot, a Set) made between any two of   *)
(* their steps.  The third call's own steps run one after the other: the   *)
(* runs are a part of the program's.                                       *)
RaceInit == InitWith(RaceIndex)

(* the thread whose call runs without preemption: the third goroutine     *)
Snapshotter == 2

Unpreempted(t) == t = Snapshotter \/ ~Running(Snapshotter)

RaceNext ==
    \E t \in Threads :
        \/ Unpreempted(t) /\ Invoke(t)
        \/ Unpreempted(t) /\ GcasRead(t)
        \/ Unpreempted(t) /\ GcasComplete(t)
        \/ Unpreempted(t) /\ Gcas(t)
        \/ Unpreempted(t) /\ RdcssReadRoot(t)
        \/ Unpreempted(t) /\ RdcssComplete(t)
        \/ Unpreempted(t) /\ RdcssRoot(t)
        \/ Unpreempted(t) /\ ToCompressed(t)
        \/ Unpreempted(t) /\ CleanParent(t)

RaceSpec == RaceInit /\ [][RaceNext]_vars

----------------------------------------------------------------------------
(* Properties *)

Same(r, e) == r.tag = e.tag /\ r.v = e.v
Known(e) == e.tag # "unknown"
Returned(t) == hist[t].op.op # "none"
Finished == \A t \in Threads : ~HasOp(t)
Index(scn) == CHOOSE i \in 1 .. Len(Scenarios) : Scenarios[i] = scn

(* C1: no lost update.  On the handle the map was created with, a Get(k)   *)
(* invoked when a Set(k, v) has returned and no Set or Delete of k started *)
(* since returns (v, true), whatever runs concurrently on other keys and   *)
(* whatever snapshots bumped the root generation before.                   *)
C1_NoLostUpdate ==
    \A t \in Threads :
        (/\ Returned(t)
         /\ hist[t].op.op = "Get"
         /\ hinfo[hist[t].op.h].kind = "new"
         /\ hist[t].expect.tag = "val")
        => Same(hist[t].res, hist[t].expect)

(* C2: the stress scenario.  Two writers set the same keys to the same     *)
(* values while a third thread calls Clone and RClone; once the writers    *)
(* have finished, Len() is the number of distinct keys and every Get(k)    *)
(* returns (v(k), true).                                                   *)
C2_Stress ==
    sc = Index(Stress) =>
        \A t \in Threads :
            (/\ Returned(t)
             /\ hist[t].op.op \in {"Len", "Get"}
             /\ Known(hist[t].expect))
            => Same(hist[t].res, hist[t].expect)

(* C3: snapshot isolation.  A Get or Len on a handle s returned by Clone   *)
(* gives what the source held when it was cloned, also after Set, Delete   *)
(* or Clear calls made on the source after Clone returned.                 *)
C3_SnapshotIsolation ==
    \A t \in Threads :
        (/\ Returned(t)
         /\ hist[t].op.op \in {"Get", "Len"}
         /\ hinfo[hist[t].op.h].kind = "Clone"
         /\ hinfo[hist[t].op.h].src \in hinfo[hist[t].op.h].dirty
         /\ Known(hist[t].expect))
        => Same(hist[t].res, hist[t].expect)

(* C4: point-in-time clone.  The handle returned by Clone holds what the   *)
(* source held at the root swap of the Clone call: a write invoked on the  *)
(* source after that swap is not visible in the clone.                     *)
C4_PointInTime ==
    \A t \in Threads :
        (/\ Returned(t)
         /\ hist[t].op.op \in {"Get", "Len"}
         /\ hinfo[hist[t].op.h].kind = "Clone"
         /\ Known(hist[t].expectC))
        => Same(hist[t].res, hist[t].expectC)

(* C5: clone independence.  A Clone of a read-write handle is writable,    *)
(* and a Set or Delete on a clone changes nothing that the source or       *)
(* another snapshot (also a snapshot of that clone) returns.               *)
C5_CloneIndependence ==
    /\ \A h \in 1 .. NH :
          (hinfo[h].kind = "Clone" /\ ~maps[hinfo[h].src].readOnly) => ~maps[h].readOnly
    /\ \A t \in Threads :
          (/\ Returned(t)
           /\ hist[t].op.op \in {"Get", "Len"}
           /\ \E d \in hinfo[hist[t].op.h].dirty : hinfo[d].kind = "Clone"
           /\ Known(hist[t].expect))
          => Same(hist[t].res, hist[t].expect)

MutatesReadOnly(t) ==
    /\ HasOp(t)
    /\ CurOp(t).op \in {"Set", "Delete", "Clear"}
    /\ maps[CurOp(t).h].live
    /\ maps[CurOp(t).h].readOnly

C7_ReadOnlyAbort ==
    [][\A t \in Threads :
          (MutatesReadOnly(t) /\ (stack'[t] # stack[t] \/ ip'[t] # ip[t]))
          => /\ ip'[t] = ip[t] + 1
             /\ hist'[t].res.tag = "panic"
             /\ hist'[t].err = "Cannot modify read-only clone"
             /\ inodes' = inodes
             /\ mains' = mains
             /\ maps' = maps]_vars

C7_Witness ==
    \E t \in Threads :
        /\ Returned(t)
        /\ hist[t].op.op = "Clear"
        /\ hist[t].res.tag = "panic"
        /\ maps[hist[t].op.h].readOnly

(* C8: Delete result.  Delete(k) on a map that holds k -> v returns        *)
(* (v, true), on a map without k it returns (zero, false), and a Get(k)    *)
(* after a Delete(k) and before the next Set(k, .) reports k absent.       *)
C8_DeleteResult ==
    \A t \in Threads :
        Returned(t) =>
            /\ (hist[t].op.op = "Delete" /\ ~maps[hist[t].op.h].readOnly
                  /\ Known(hist[t].expect))
                  => Same(hist[t].res, hist[t].expect)
            /\ (hist[t].op.op = "Get" /\ hinfo[hist[t].op.h].kind = "new"
                  /\ hist[t].expect.tag = "absent")
                  => hist[t].res.tag = "absent"

(* C9: no phantom values.  A Get(k) that reports k present with v returns  *)
(* a value some Set(k, v) was invoked with before the Get returned.        *)
C9_NoPhantom ==
    \A t \in Threads :
        (Returned(t) /\ hist[t].op.op = "Get" /\ hist[t].res.tag = "val")
        => <<hist[t].op.k, hist[t].res.v>> \in everSet

C9_Witness ==
    \E t \in Threads :
        /\ sc = Index(Concurrent)
        /\ Returned(t)
        /\ hist[t].op.op = "Get"
        /\ hist[t].res.tag = "val"
        /\ hist[t].expect.tag = "unknown"
        /\ hist[t].res.v = 2
        /\ <<"a", 1>> \in everSet

(* C10: hash collisions.  Keys with one 32-bit hash coexist: every Get and *)
(* Delete of such a key returns what was last set for that very key, Len   *)
(* counts each key once, and no collision list holds a key twice.          *)
Colliding == {"c1", "c2", "c3"}
NoDuplicate(l) == \A i, j \in 1 .. Len(l) : l[i].key = l[j].key => i = j

C10_HashCollision ==
    /\ \A m \in DOMAIN mains : mains[m].k = "l" => NoDuplicate(mains[m].v)
    /\ \A t \in Threads :
          (/\ Returned(t)
           /\ \/ hist[t].op.op \in {"Get", "Delete"} /\ hist[t].op.k \in Colliding
              \/ hist[t].op.op = "Len" /\ exp[hist[t].op.h]["c2"] > 0
           /\ Known(hist[t].expect))
          => Same(hist[t].res, hist[t].expect)

(* C11: iterator completeness.  An iteration during which no write to the *)
(* map is in progress yields every entry the map holds, each exactly once, *)
(* and nothing else; entries in a tombstone or in a collision list too.    *)
IterSet(r) == {r.v[i] : i \in 1 .. Len(r.v)}

C11_IteratorComplete ==
    \A t \in Threads :
        (Returned(t) /\ hist[t].op.op = "Iter" /\ hist[t].quiet /\ hist[t].err = "")
        => /\ IterSet(hist[t].res) = hist[t].held
           /\ Len(hist[t].res.v) = Cardinality(hist[t].held)
           /\ Known(hist[t].expect) => hist[t].held = hist[t].expect.v

C11_Witness ==
    \E t \in Threads :
        /\ Returned(t)
        /\ hist[t].op.op = "Iter"
        /\ hist[t].quiet
        /\ hist[t].n = 7
        /\ IterSet(hist[t].res) = {<<"a", 1>>, <<"a2", 2>>, <<"c1", 1>>}
        /\ \E i \in DOMAIN inodes :
              /\ ~inodes[i].isDesc
              /\ mains[inodes[i].main].k = "t"
              /\ mains[inodes[i].main].v.key = "c1"


(* C12: size.  A Len() that runs while no call changes its handle returns  *)
(* the number of distinct keys that were Set and not since Deleted or      *)
(* Cleared, which is the number of entries an iteration of the handle at   *)
(* that point yields.                                                      *)
C12_Size ==
    \A t \in Threads :
        (/\ Returned(t)
         /\ hist[t].op.op = "Len"
         /\ hist[t].err = ""
         /\ hist[t].quiet
         /\ Known(hist[t].expect))
        => /\ hist[t].res.v = hist[t].expect.v
           /\ hist[t].res.v = Cardinality(hist[t].held)


(* C13: iterator snapshot.  An iteration yields, each once, the entries    *)
(* the map held when Iterator() took its snapshot; a Set, Delete or Clear  *)
(* called on the map after Iterator() returned, while the iteration is in  *)
(* progress, adds, removes and changes none of them.                       *)
C13_IteratorSnapshot ==
    \A t \in Threads :
        (/\ Returned(t)
         /\ hist[t].op.op \in {"Iter", "Next"}
         /\ hist[t].err = ""
         /\ Known(hist[t].expectI))
        => /\ IterSet(hist[t].res) = hist[t].expectI.v
           /\ Len(hist[t].res.v) = Cardinality(hist[t].expectI.v)

(* an iteration has returned the snapshot's entries although the map held  *)
(* other entries by then: writers ran while it was in progress             *)
C13_Witness ==
    \E t \in Threads :
        /\ Returned(t)
        /\ hist[t].op.op = "Next"
        /\ hist[t].err = ""
        /\ ~hist[t].quiet
        /\ Known(hist[t].expectI)
        /\ IterSet(hist[t].res) = {<<"a", 1>>, <<"a2", 2>>, <<"c1", 1>>}
        /\ hist[t].held \in {{}, {<<"a", 3>>, <<"b", 1>>, <<"c1", 1>>}}


(* C14: Clear.  With no concurrent writer, once Clear() has returned on a  *)
(* read-write handle Len() is 0 and Get(k) finds nothing for every key,    *)
(* while a snapshot cloned before the Clear keeps all its entries.         *)
C14_Clear ==
    sc = Index(ClearThenRead) =>
        /\ \A h \in {1, 2, 3} :
              (hist[0].op = ILen(hist[0].op.ph, h)) =>
                 hist[0].res = [tag |-> "len", v |-> IF h = 1 THEN 0 ELSE 3]
        /\ \A k \in {"a", "a2", "c1"} :
              (hist[0].op = IGet(hist[0].op.ph, 1, k) /\ hist[0].op.ph > 5) =>
                 hist[0].res.tag = "absent"
        /\ (hist[0].op = IGet(11, 2, "a2")) => hist[0].res = [tag |-> "val", v |-> 2]
        /\ (hist[0].op = IGet(13, 3, "c1")) => hist[0].res = [tag |-> "val", v |-> 1]

(* after the Clear the map is empty and its read-only snapshot has returned *)
(* the entry c1                                                             *)
C14_Witness ==
    /\ sc = Index(ClearThenRead)
    /\ hist[0].op = IGet(13, 3, "c1")
    /\ hist[0].res = [tag |-> "val", v |-> 1]
    /\ EntriesOf(inodes, mains, maps[1].root) = {}
    /\ Cardinality(EntriesOf(inodes, mains, maps[3].root)) = 3


(* C15: Clear takes effect once.  One Clear call installs an empty root    *)
(* exactly once: when a thread has seen the map emptied by the Clear (its  *)
(* Get of a key set before finds nothing) and then calls Set(b, 1), the    *)
(* entry b is still there when the Clear has returned and nothing deleted  *)
(* it.                                                                     *)
C15_ClearOnce ==
    sc = Index(ClearOnce) =>
        ((/\ hist[1].op = ISet(1, 1, "b", 1)
          /\ hist[1].before.op = IGet(1, 1, "a")
          /\ hist[1].before.res.tag = "absent"
          /\ hist[0].op = IGet(2, 1, "b"))
         => hist[0].res = [tag |-> "val", v |-> 1])


(* C16: sequential refinement.  Whatever sequence of Set, Get, Delete, Len *)
(* and Clear one thread calls, every call returns what a plain key-value   *)
(* map returns, and between calls the trie holds exactly the map's entries *)
(* (also when keys are set again after deletions that left a tombstone or  *)
(* a contracted branch).                                                   *)
C16_SequentialRefinement ==
    /\ (Returned(0) /\ hist[0].op.op \in {"Get", "Delete", "Len"})
          => /\ hist[0].err = ""
             /\ Known(hist[0].expect)
             /\ Same(hist[0].res, hist[0].expect)
    /\ ~Running(0) =>
          /\ Known(IterExp(exp[1]))
          /\ EntriesOf(inodes, mains, maps[1].root) = IterExp(exp[1]).v

(* c2 has been set again, and found, after its Delete left c1 in a         *)
(* tombstone, and a2 was deleted, which contracted its branch              *)
C16_Witness ==
    /\ sc \in SeqIndex
    /\ hist[0].n = Len(SeqFill) + 4
    /\ hist[0].op = IGet(0, 1, "c2")
    /\ hist[0].res = [tag |-> "val", v |-> 2]
    /\ hist[0].before.op = ISet(0, 1, "c2", 2)
    /\ EntriesOf(inodes, mains, maps[1].root) = {<<"a", 1>>, <<"c1", 1>>, <<"c2", 2>>}


(* C17: progress.  When threads that keep being scheduled have issued      *)
(* finitely many calls, every call eventually returns.                     *)
C17_Progress == <>Finished

(* C18: no operation fails except a mutation of a read-only handle.  A     *)
(* call that has returned either did not panic, or it is a Set, Delete or  *)
(* Clear on a read-only handle that panicked with "Cannot modify read-only *)
(* clone"; the main node an I-node holds with no pending GCAS is a C-, T-  *)
(* or L-node, and every branch of a C-node is an I-node or an S-node.      *)
C18_NoPanic ==
    /\ \A t \in Threads :
         Returned(t) =>
            \/ hist[t].err = ""
            \/ /\ hist[t].err = "Cannot modify read-only clone"
               /\ hist[t].op.op \in {"Set", "Delete", "Clear"}
               /\ maps[hist[t].op.h].readOnly
    /\ \A i \in DOMAIN inodes :
         ~inodes[i].isDesc =>
            /\ inodes[i].main \in DOMAIN mains
            /\ mains[inodes[i].main].prev = Nil => mains[inodes[i].main].k \in {"c", "t", "l"}
    /\ \A m \in DOMAIN mains :
         mains[m].k = "c" =>
            \A j \in 1 .. Len(mains[m].v.slice) : mains[m].v.slice[j].t \in {"i", "s"}

(* C18 witness: after Set, Delete and Clear on a read-only snapshot have   *)
(* panicked, Clone, Get and Len on it have returned without a panic.       *)
C18_Witness ==
    /\ sc = Index(ReadOnlyMutation)
    /\ hist[0].op = ILen(10, 2)
    /\ hist[0].err = ""
    /\ hist[0].res.v = 1
    /\ hist[0].before.op = IGet(9, 2, "a")
    /\ hist[0].before.res = [tag |-> "val", v |-> 1]
    /\ maps[2].readOnly /\ maps[3].readOnly

(* the step is one of thread t, inside a Get, a Len or an iteration on a   *)
(* read-only handle                                                        *)
ReaderStep(t) ==
    /\ HasOp(t)
    /\ stack'[t] # stack[t] \/ ip'[t] # ip[t]
    /\ CurOp(t).op \in {"Get", "Len", "Iter", "Next"}
    /\ maps[CurOp(t).h].readOnly
(* the root pointer of every handle of the program stays as it is (the    *)
(* handles above NH are the variables a Len or an iteration keeps its own  *)
(* iterator's snapshot in)                                                 *)
RootsKept == \A h \in 1 .. NH : maps[h].live => maps'[h].root = maps[h].root

(* C19 as stated: readers never write through a read-only handle.  No step *)
(* of a Get, a Len or an iteration on a read-only handle changes the main  *)
(* of an I-node, the prev of a main node or a root pointer.                *)
C19_ReadersNeverWrite ==
    [][\A t \in Threads :
          ReaderStep(t) =>
             /\ RootsKept
             /\ \A i \in DOMAIN inodes : inodes'[i].main = inodes[i].main
             /\ \A m \in DOMAIN mains : mains'[m].prev = mains[m].prev]_vars

(* C19 amended: a Get, a Len or an iteration on a read-only handle changes *)
(* no root pointer and commits no GCAS; its only successful CASes abort a  *)
(* GCAS it finds pending: the prev of the pending main node goes from the  *)
(* previous main to a new failed marker that holds that previous main, and *)
(* the main of the I-node goes from the node so marked back to the         *)
(* previous main.                                                          *)
C19_ReadersOnlyAbort ==
    [][\A t \in Threads :
          ReaderStep(t) =>
             /\ RootsKept
             /\ \A i \in DOMAIN inodes :
                  inodes'[i].main # inodes[i].main =>
                     /\ mains[inodes[i].main].prev # Nil
                     /\ mains[mains[inodes[i].main].prev].k = "f"
                     /\ inodes'[i].main = mains[mains[inodes[i].main].prev].v
             /\ \A m \in DOMAIN mains :
                  mains'[m].prev # mains[m].prev =>
                     /\ mains[m].prev # Nil
                     /\ mains[mains[m].prev].k # "f"
                     /\ mains'[m].prev \notin DOMAIN mains
                     /\ mains'[mains'[m].prev] = MainF(mains[m].prev)]_vars

(* C19 witness: thread 1's Set has swapped its new main into the I-node of *)
(* a and a2 and has not yet read the node's prev, and thread 0, which has  *)
(* since taken the read-only snapshot and read a from it, has marked the   *)
(* GCAS failed and put the previous main back.                             *)
C19_Witness ==
    /\ sc = Index(SnapshotDuringSet)
    /\ hist[0].op = IGet(2, 2, "a")
    /\ hist[0].res = [tag |-> "val", v |-> 1]
    /\ Len(stack[1]) >= 2
    /\ \E g \in {stack[1][Len(stack[1]) - 1]} :
       \E f \in {stack[1][Len(stack[1])]} :
          /\ g.fn = "gcas" /\ g.pc = "g1"
          /\ f.fn = "gcasComplete" /\ f.pc = "gc0" /\ f.prev = Nil
          /\ inodes[g.in].main = g.old
          /\ mains[g.n].prev # Nil
          /\ mains[mains[g.n].prev] = MainF(g.old)

(* gcas(i, old, n) has returned false: n has been given a prev, no I-node  *)
(* holds it and no call of gcas is under way for it                        *)
Discarded(n) ==
    /\ mains[n].prev # Nil
    /\ \A i \in DOMAIN inodes : inodes[i].main # n
    /\ \A t \in Threads : \A j \in 1 .. Len(stack[t]) :
          stack[t][j].fn = "gcas" => stack[t][j].n # n

(* C20: gcas(i, old, n) returns true if and only if n was installed as     *)
(* i.main and committed (n.prev reset to null); when it returns false, n   *)
(* is not, and never becomes, the committed main of i.  Whenever a thread  *)
(* is at a step with which its gcas returns, the value returned is true    *)
(* exactly when the CAS of gcas had swapped n in and n.prev is null, and   *)
(* when it is false no I-node holds n; a node for which gcas has returned  *)
(* false is never again held by an I-node and keeps its prev.              *)
C20_Gcas ==
    /\ [](\A t \in Threads :
            At(t, "gcas") =>
               \E c \in {Cfg(t, stack[t])} : \E r \in {gcas(c)} :
                  Len(r.stk) < Len(c.stk) =>
                     /\ r.ret = TRUE <=> (F(c).pc = "g1" /\ mains[F(c).n].prev = Nil)
                     /\ r.ret = FALSE => \A i \in DOMAIN inodes : inodes[i].main # F(c).n)
    /\ [][\A n \in DOMAIN mains :
            Discarded(n) => Discarded(n)' /\ mains'[n].prev = mains[n].prev]_vars

(* C20 witness: thread 1's gcas had swapped its node in, the reader of the *)
(* read-only snapshot has aborted it, and gcas is about to return false.   *)
C20_Witness ==
    /\ sc = Index(SnapshotDuringSet)
    /\ At(1, "gcas")
    /\ \E g \in {stack[1][Len(stack[1])]} :
          /\ g.pc = "g1"
          /\ mains[g.n].prev # Nil
          /\ mains[mains[g.n].prev] = MainF(g.old)
          /\ inodes[g.in].main = g.old

Top(t) == stack[t][Len(stack[t])]
AtCommit(t) == At(t, "gcasComplete") /\ Top(t).pc = "gcCommit"
(* thread t's step is the CAS of gcasComplete that commits a GCAS *)
Commits(t) ==
    /\ AtCommit(t)
    /\ stack'[t] # stack[t]
    /\ mains[Top(t).m].prev # Nil
    /\ mains'[Top(t).m].prev = Nil
(* the checks of gcasComplete: a prev goes to null only by the commit CAS  *)
(* of a thread on a read-write handle; a thread reaches that CAS only with *)
(* the step in which it has read a root of the generation of the I-node;   *)
(* a prev that is a failed marker stays                                    *)
CommitChecked ==
    /\ \A m \in DOMAIN mains :
          mains[m].prev # Nil /\ mains'[m].prev = Nil =>
             \E t \in Threads :
                /\ Commits(t)
                /\ Top(t).m = m
                /\ mains[mains[m].prev].k # "f"
                /\ ~maps[Top(t).h].readOnly
    /\ \A t \in Threads :
          (/\ stack'[t] # stack[t]
           /\ stack'[t] # <<>>
           /\ stack'[t][Len(stack'[t])].fn = "gcasComplete"
           /\ stack'[t][Len(stack'[t])].pc = "gcCommit") =>
             \E f \in {stack'[t][Len(stack'[t])]} :
                /\ ~maps'[f.h].readOnly
                /\ ~inodes'[maps'[f.h].root].isDesc
                /\ inodes'[maps'[f.h].root].gen = inodes'[f.i].gen
    /\ \A m \in DOMAIN mains :
          mains[m].prev # Nil /\ mains[mains[m].prev].k = "f" =>
             mains'[m].prev = mains[m].prev

PlainLoad(t) ==
    IF ~Running(t) THEN Nil
    ELSE IF Top(t).fn = "cleanParent" /\ Top(t).pc = "cp0" THEN inodes[Top(t).i].main
    ELSE IF Top(t).fn = "cleanParent" /\ Top(t).pc = "cp1" THEN inodes[Top(t).p].main
    ELSE IF Top(t).fn = "toCompressed" /\ Top(t).pc = "tc1"
         THEN inodes[Top(t).cn.slice[Top(t).idx].x].main
    ELSE Nil

(* C22: gcasRead(i) returns a main node whose prev is null, and no         *)
(* traversal or maintenance step acts on a main node whose GCAS is still   *)
(* in flight or has failed.  A step with which gcasRead or gcasComplete    *)
(* returns returns a C-, T- or L-node whose prev is null; the main node    *)
(* cleanParent or toCompressed is about to load has a null prev; the old   *)
(* node of every gcas under way has a null prev.                           *)
C22_GcasRead ==
    \A t \in Threads :
       /\ At(t, "gcasRead") \/ At(t, "gcasComplete") =>
             \E c \in {Cfg(t, stack[t])} : \E r \in {Handle(c)} :
                Len(r.stk) < Len(c.stk) =>
                   /\ r.ret \in DOMAIN r.M
                   /\ r.M[r.ret].prev = Nil
                   /\ r.M[r.ret].k \in {"c", "t", "l"}
       /\ PlainLoad(t) # Nil => mains[PlainLoad(t)].prev = Nil
       /\ \A j \in 1 .. Len(stack[t]) :
             stack[t][j].fn = "gcas" => mains[stack[t][j].old].prev = Nil

(* the GCAS of main node n has failed: its prev holds a failed marker *)
Failed(M, n) == M[n].prev # Nil /\ M[M[n].prev].k = "f"
(* the I-nodes that are not descriptors *)
INodes == {i \in DOMAIN inodes : ~inodes[i].isDesc}

(* what a step does when a GCAS fails: the failed marker put into n.prev   *)
(* records the prev it replaces, the main node held before the GCAS, and n *)
(* is at that step the main of its I-node; a main whose prev is a failed   *)
(* marker is replaced by nothing but the node the marker records; and no   *)
(* step changes the contents of a main node.                               *)
RollbackExact ==
    /\ \A i \in INodes : \E m \in {inodes[i].main} : \E m1 \in {inodes'[i].main} :
          (m1 # m /\ Failed(mains, m)) => m1 = mains[mains[m].prev].v
    /\ \A n \in DOMAIN mains :
          /\ mains'[n].k = mains[n].k /\ mains'[n].v = mains[n].v
          /\ (~Failed(mains, n) /\ Failed(mains', n)) =>
                /\ mains'[mains'[n].prev].v = mains[n].prev
                /\ \E i \in INodes : inodes[i].main = n

(* C23: when a GCAS fails its generation check, i.main is restored to      *)
(* exactly the main node it held before the GCAS (the node recorded in     *)
(* prev.failed), so a failed GCAS leaves the contents of the map as they   *)
(* were before it.                                                         *)
C23_Rollback == [][RollbackExact]_vars

(* C24: rdcssRoot(old, expected, nv) returns true if and only if its       *)
(* descriptor's nv was installed as the root; in particular it never       *)
(* returns false after nv has been installed by a helping thread.          *)
(* Whenever a thread is at the step with which its rdcssRoot returns: if   *)
(* the root of the handle is the nv of its descriptor the value returned   *)
(* is true, and if the value is true the root is neither old nor the       *)
(* descriptor.                                                             *)
C24_RdcssRoot ==
    \A t \in Threads :
        At(t, "rdcssRoot") =>
           \E c \in {Cfg(t, stack[t])} : \E r \in {rdcssRoot(c)} :
              (Len(r.stk) < Len(c.stk) /\ r.err = "") =>
                 /\ maps[F(c).h].root = F(c).nv => r.ret = TRUE
                 /\ r.ret = TRUE => maps[F(c).h].root \notin {F(c).old, F(c).desc}

(* the handles a program names that are in use before and after a step *)
LiveHandles == {h \in 1 .. NH : maps[h].live /\ maps'[h].live}
(* main node e is the committed main of I-node i: i holds e, or holds a    *)
(* node put on top of e whose GCAS is not committed                        *)
CommittedMain(i, e) ==
    /\ mains[e].prev = Nil
    /\ \E m \in {inodes[i].main} :
          \/ m = e
          \/ mains[m].prev = e
          \/ Failed(mains, m) /\ mains[mains[m].prev].v = e
(* thread t takes the step of rdcssComplete at pc on descriptor d *)
Completes(t, pc, d) ==
    /\ At(t, "rdcssComplete") /\ Top(t).pc = pc /\ Top(t).r = d
    /\ stack'[t] # stack[t]

(* C25: conditional root swap.  The root is swung from old to nv only if,  *)
(* at the completing step, gcasRead(old) is the same main node as          *)
(* expected; if old's main has changed in between, or the descriptor is    *)
(* aborted by a thread completing a GCAS, the root is restored to old and  *)
(* nv is never installed by that descriptor.  In every step: the root goes *)
(* from a descriptor d to d.nv only by the commit CAS of a thread whose    *)
(* gcasRead(d.old) returned d.expected, and d.expected is then still the   *)
(* committed main of d.old; a thread whose gcasRead(d.old) returned        *)
(* another node, or that aborts, puts d.old back; apart from such a        *)
(* restoring step, d.nv becomes the root only from d; and d becomes the    *)
(* root only by the first CAS of the                                       *)
(* rdcssRoot that made it, so a descriptor taken off the root never        *)
(* returns to it.                                                          *)
ConditionalSwap ==
    \A h \in LiveHandles : \E r \in {maps[h].root} : \E r1 \in {maps'[h].root} :
        r1 # r =>
           /\ (inodes[r].isDesc /\ r1 = inodes[r].nv) =>
                 /\ \E t \in Threads : Completes(t, "rcCommit", r) /\ Top(t).h = h
                 /\ CommittedMain(inodes[r].old, inodes[r].expected)
           /\ (inodes[r].isDesc /\ r1 # inodes[r].nv) =>
                 /\ r1 = inodes[r].old
                 /\ \E t \in Threads :
                       Completes(t, "rcAbort", r) \/ Completes(t, "rcRollback", r)
           /\ \A d \in DOMAIN inodes :
                 (/\ inodes[d].isDesc /\ r1 = inodes[d].nv
                  /\ ~(inodes[r].isDesc /\ r1 = inodes[r].old)) => r = d
           /\ inodes'[r1].isDesc =>
                 /\ r = inodes'[r1].old
                 /\ \E t \in Threads :
                       /\ At(t, "rdcssRoot") /\ Top(t).pc = "rd0" /\ Top(t).desc = r1
                       /\ stack'[t] # stack[t]
C25_ConditionalSwap ==
    /\ [](\A t \in Threads :
            (/\ At(t, "gcasRead") \/ At(t, "gcasComplete")
             /\ Len(stack[t]) >= 2
             /\ stack[t][Len(stack[t]) - 1].fn = "rdcssComplete"
             /\ stack[t][Len(stack[t]) - 1].pc = "rc2") =>
               \E c \in {Cfg(t, stack[t])} : \E r \in {Handle(c)} :
                  (Len(r.stk) < Len(c.stk) /\ r.err = "") =>
                     F(Local(r)).pc = IF r.ret = inodes[F(r).r].expected
                                      THEN "rcCommit" ELSE "rcRollback")
    /\ [][ConditionalSwap]_vars

(* C25 witness: the root of a handle is the nv of a descriptor that was    *)
(* completed while a Set had put its node on top of the expected main of   *)
(* old: the node is not committed and expected is still the committed main *)
C25_Witness ==
    \E d \in DOMAIN inodes :
        /\ inodes[d].isDesc
        /\ maps[1].root = inodes[d].nv
        /\ inodes[d].committed = 1
        /\ inodes[inodes[d].old].main # inodes[d].expected
        /\ mains[inodes[inodes[d].old].main].prev = inodes[d].expected

(* C26: root transitions.  The root pointer of a handle only ever changes  *)
(* from a real I-node r to a descriptor wrapper whose old is r, and from a *)
(* descriptor wrapper to that descriptor's nv or back to its old; readRoot *)
(* never returns a descriptor wrapper: whenever a thread is at a step with *)
(* which rdcssReadRoot or rdcssComplete returns, the I-node returned is    *)
(* not a descriptor.                                                       *)
RootTransition ==
    \A h \in LiveHandles : \E r \in {maps[h].root} : \E r1 \in {maps'[h].root} :
        r1 # r =>
           IF inodes[r].isDesc
           THEN r1 \in {inodes[r].nv, inodes[r].old} /\ ~inodes'[r1].isDesc
           ELSE inodes'[r1].isDesc /\ inodes'[r1].old = r
C26_RootTransitions ==
    /\ [](\A t \in Threads :
            At(t, "rdcssReadRoot") \/ At(t, "rdcssComplete") =>
               \E c \in {Cfg(t, stack[t])} : \E r \in {Handle(c)} :
                  (Len(r.stk) < Len(c.stk) /\ r.err = "") =>
                     r.ret \in DOMAIN r.I /\ ~r.I[r.ret].isDesc)
    /\ [][RootTransition]_vars

(* C26 witness: a thread's rdcssRoot had put its descriptor at the root of *)
(* handle 1, another thread has taken it off again, and the root is the    *)
(* descriptor's old once more.                                             *)
C26_Witness ==
    \E t \in Threads :
        /\ At(t, "rdcssRoot")
        /\ Top(t).pc = "rd1"
        /\ inodes[Top(t).desc].committed = 0
        /\ maps[Top(t).h].root = Top(t).old

(* the root I-nodes of the handles in use: the root, and for a root that   *)
(* is a descriptor its old and its nv                                      *)
RootINodes ==
    UNION {IF inodes[r].isDesc THEN {inodes[r].old, inodes[r].nv} ELSE {r} :
           r \in {maps[h].root : h \in {x \in DOMAIN maps : maps[x].live}}}
(* the main nodes I-node i may have as committed main: the one it holds    *)
(* and, while the GCAS of that one is not committed, the one it replaced   *)
MainsOf(i) ==
    LET m == inodes[i].main IN
    {m} \cup (IF mains[m].prev = Nil THEN {}
              ELSE IF Failed(mains, m) THEN {mains[mains[m].prev].v}
              ELSE {mains[m].prev})

(* C27: in every reachable state the committed main of a handle's root     *)
(* I-node is a C-node (possibly empty), never a T-node or an L-node,       *)
(* including after deleting down to one or zero entries and after clean or *)
(* cleanParent applied at level 0.                                         *)
C27_RootIsCNode ==
    \A i \in RootINodes : \A m \in MainsOf(i) : mains[m].k = "c"

(* C27 witness: a Delete has returned and left the root of handle 1 with a *)
(* C-node whose only branch is an S-node.                                  *)
C27_Witness ==
    /\ \E t \in Threads : hist[t].op.op = "Delete" /\ hist[t].op.h = 1
                            /\ hist[t].res.tag = "val"
    /\ ~inodes[maps[1].root].isDesc
    /\ \E m \in {mains[inodes[maps[1].root].main]} :
          m.prev = Nil /\ m.k = "c" /\ Len(m.v.slice) = 1 /\ m.v.slice[1].t = "s"

(* the I-nodes that are a branch of some C-node: the non-root I-nodes *)
SubINodes ==
    UNION {{mains[n].v.slice[j].x :
              j \in {x \in 1 .. Len(mains[n].v.slice) : mains[n].v.slice[x].t = "i"}} :
           n \in {x \in DOMAIN mains : mains[x].k = "c"}}

(* C28: contraction invariant.  In every reachable state no non-root       *)
(* I-node has as committed main a C-node whose only branch is an S-node,   *)
(* nor an empty C-node; a non-root subtree that shrinks to one entry is    *)
(* always represented by a T-node.                                         *)
C28_Contraction ==
    \A i \in SubINodes : \E m \in {mains[inodes[i].main]} :
        (m.prev = Nil /\ m.k = "c") =>
            /\ Len(m.v.slice) >= 1
            /\ Len(m.v.slice) = 1 => m.v.slice[1].t = "i"

(* C28 witness: a Delete has returned and left a non-root I-node whose     *)
(* subtree shrank to one entry with a T-node as committed main.            *)
C28_Witness ==
    /\ \E t \in Threads : hist[t].op.op = "Delete" /\ hist[t].res.tag = "val"
    /\ \E i \in SubINodes :
          mains[inodes[i].main].k = "t" /\ mains[inodes[i].main].prev = Nil

(* the index whose flag is the j-th lowest bit set in bmp *)
NthIndex(bmp, j) == CHOOSE x \in bmp : Cardinality({y \in bmp : y < x}) = j - 1
(* every C-node that I-node i at level lev holds, or held before a GCAS    *)
(* not yet committed, has one branch per bit of bmp, in the order of the   *)
(* bits, each entry below a branch has the index of the branch as its hash *)
(* chunk at lev, and the same holds of the I-nodes below at lev + w        *)
RECURSIVE Shaped(_, _)
Shaped(i, lev) ==
    \A m \in MainsOf(i) :
        mains[m].k = "c" =>
           \E cn \in {mains[m].v} :
              /\ Len(cn.slice) = Cardinality(cn.bmp)
              /\ \A j \in 1 .. Len(cn.slice) :
                    \E idx \in {NthIndex(cn.bmp, j)} :
                       IF cn.slice[j].t = "s"
                       THEN Idx(cn.slice[j].x.hash, lev) = idx
                       ELSE /\ \A e \in EntriesOf(inodes, mains, cn.slice[j].x) :
                                 Idx(uint32(hashFunc(e[1])), lev) = idx
                            /\ Shaped(cn.slice[j].x, lev + w)

(* C29: C-node shape.  Every C-node satisfies len(slice) = popcount(bmp)   *)
(* with branches in ascending index order, and every entry stored below    *)
(* index idx of a C-node at level lev has (hash >> lev) & 0x1f = idx, so   *)
(* that each stored entry lies on the path its own hash selects.           *)
C29_CNodeShape == \A r \in RootINodes : Shaped(r, 0)

(* C29 witness: the root of handle 1 holds a C-node of two branches or     *)
(* more, one of them an I-node whose C-node has two branches or more.      *)
C29_Witness ==
    /\ ~inodes[maps[1].root].isDesc
    /\ \E m \in {mains[inodes[maps[1].root].main]} :
          /\ m.prev = Nil /\ m.k = "c" /\ Len(m.v.slice) >= 2
          /\ \E j \in 1 .. Len(m.v.slice) :
                /\ m.v.slice[j].t = "i"
                /\ \E n \in {mains[inodes[m.v.slice[j].x].main]} :
                      n.prev = Nil /\ n.k = "c" /\ Len(n.v.slice) >= 2

(* the I-nodes reachable from I-node i, i included *)
RECURSIVE INodesBelow(_)
INodesBelow(i) ==
    IF inodes[i].isDesc THEN INodesBelow(inodes[i].old) ELSE
    {i} \cup (IF mains[inodes[i].main].k # "c" THEN {}
              ELSE UNION {INodesBelow(br.x) :
                          br \in {mains[inodes[i].main].v.slice[j] :
                                    j \in {x \in 1 .. Len(mains[inodes[i].main].v.slice) :
                                             mains[inodes[i].main].v.slice[x].t = "i"}}})
(* the I-nodes some read-only handle reaches *)
SharedReadOnly ==
    UNION {INodesBelow(maps[h].root) : h \in {x \in DOMAIN maps : maps[x].live /\ maps[x].readOnly}}
(* the generation of the root of handle h *)
RootGen(h) ==
    IF inodes[maps[h].root].isDesc THEN inodes[inodes[maps[h].root].old].gen
    ELSE inodes[maps[h].root].gen

(* C30: all I-nodes reachable from a handle's root carry that handle's     *)
(* root generation, except possibly shared I-nodes of a read-only          *)
(* snapshot.                                                               *)
C30_Generations ==
    \A h \in {x \in DOMAIN maps : maps[x].live} :
        \A i \in INodesBelow(maps[h].root) \ SharedReadOnly :
            inodes[i].gen = RootGen(h)

(* C30 as the code has it: renewal is lazy.  Every I-node into which an    *)
(* operation on a read-write handle has descended carries startGen, the    *)
(* generation of the root the attempt started from; I-nodes the operations *)
(* have not visited since a snapshot keep the generation they had.         *)
C30_DescentRenews ==
    \A t \in Threads : \A j \in 1 .. Len(stack[t]) :
        \E f \in {stack[t][j]} :
           (f.fn \in {"iinsert", "ilookup", "iremove"} /\ ~maps[f.h].readOnly) =>
               inodes[f.i].gen = f.startGen

(* C30 witness: an operation on a read-write handle is below the root in   *)
(* an I-node of generation startGen that is the renewed copy of an I-node  *)
(* of another generation, which a snapshot still holds.                    *)
C30_Witness ==
    \E t \in Threads : \E j \in 1 .. Len(stack[t]) :
        \E f \in {stack[t][j]} :
           /\ f.fn \in {"iinsert", "ilookup", "iremove"}
           /\ ~maps[f.h].readOnly
           /\ f.lev > 0
           /\ inodes[f.i].gen = f.startGen
           /\ \E o \in INodes :
                 /\ o # f.i
                 /\ inodes[o].gen # f.startGen
                 /\ inodes[o].main = inodes[f.i].main

(* below I-node i at level lev, every L-node that an I-node holds, or held *)
(* before a GCAS not yet committed, is at a level of exp2 or more, has two *)
(* entries or more, all of one hash, and no two of equal keys              *)
RECURSIVE LShaped(_, _)
LShaped(i, lev) ==
    \A m \in MainsOf(i) :
        /\ mains[m].k = "l" =>
              \E l \in {mains[m].v} :
                 /\ lev >= exp2
                 /\ Len(l) >= 2
                 /\ \A x, y \in 1 .. Len(l) :
                       /\ l[x].hash = l[y].hash
                       /\ eqFunc(l[x].key, l[y].key) => x = y
        /\ mains[m].k = "c" =>
              \A j \in 1 .. Len(mains[m].v.slice) :
                  mains[m].v.slice[j].t = "i" => LShaped(mains[m].v.slice[j].x, lev + w)

(* C31: L-node well-formedness.  An L-node occurs only as the main of an   *)
(* I-node at level >= 32 (below seven C-node levels), all its entries have *)
(* the same 32-bit hash, it holds at least two entries, and no two of its  *)
(* entries have equal keys.                                                *)
C31_LNodeShape == \A r \in RootINodes : LShaped(r, 0)

(* C31 witness: a Set of a key that was already in the collision list has  *)
(* returned, and an I-node holds a committed L-node of two entries or more *)
(* with the value set.                                                     *)
C31_Witness ==
    /\ hist[0].op = ISet(2, 1, "c1", 2)
    /\ \E i \in INodes : \E m \in {mains[inodes[i].main]} :
          /\ m.k = "l" /\ m.prev = Nil /\ Len(m.v) >= 2
          /\ \E x \in 1 .. Len(m.v) : m.v[x].key = "c1" /\ m.v[x].value = 2

(* the I-nodes some handle in use reaches *)
Reachable == UNION {INodesBelow(maps[h].root) : h \in {x \in DOMAIN maps : maps[x].live}}
(* the gcas of thread t that installed main node m is still under way *)
InFlight(t, m) ==
    \E j \in 1 .. Len(stack[t]) :
        stack[t][j].fn = "gcas" /\ stack[t][j].n = m /\ stack[t][j].pc = "g1"

(* C32: when no operation is in progress, every main node reachable        *)
(* through an I-node's main field has prev = null; a non-null prev on a    *)
(* reachable main node exists only while the GCAS that installed it is in  *)
(* flight.                                                                 *)
C32_PrevNull ==
    \A i \in Reachable : \E m \in {inodes[i].main} :
        mains[m].prev # Nil => \E t \in Threads : InFlight(t, m)

(* C33: a Delete whose GCAS fails is retried from the root in every node   *)
(* case, including when the key lives in an L-node, so that Delete(k)      *)
(* returns (zero, false) only if k was absent at some instant during the   *)
(* call.  Whenever a thread is at the step with which a gcas called by     *)
(* iremove returns false, the Delete does not return with that step: it    *)
(* goes on to its next access of shared memory.                            *)
C33_DeleteRetried ==
    \A t \in Threads :
        (/\ At(t, "gcas")
         /\ Len(stack[t]) >= 2
         /\ stack[t][Len(stack[t]) - 1].fn = "iremove") =>
            \E c \in {Cfg(t, stack[t])} : \E r \in {gcas(c)} :
               (Len(r.stk) < Len(c.stk) /\ r.ret = FALSE) => ~Stopped(Local(r))

(* a step gives handle h a root it did not have: the handle is created, or *)
(* its root is swapped for a new I-node (not for a descriptor, and not     *)
(* back to the root an abandoned descriptor had replaced)                  *)
NewRoot(h) ==
    /\ maps'[h].live
    /\ ~inodes'[maps'[h].root].isDesc
    /\ \/ ~maps[h].live
       \/ /\ maps'[h].root # maps[h].root
          /\ ~(inodes[maps[h].root].isDesc /\ maps'[h].root = inodes[maps[h].root].old)

(* C34: fresh generations.  Two read-write handles never have the same     *)
(* root generation, and whenever Clone, RClone or Clear gives a read-write *)
(* handle a new root, no other I-node, created before or by that step,     *)
(* carries the new root's generation: no generation token is used twice.   *)
C34_FreshGenerations ==
    /\ [](\A h1, h2 \in 1 .. NH :
            (/\ h1 # h2 /\ maps[h1].live /\ maps[h2].live
             /\ ~maps[h1].readOnly /\ ~maps[h2].readOnly) => RootGen(h1) # RootGen(h2))
    /\ [][\A h \in 1 .. NH :
            (NewRoot(h) /\ ~maps'[h].readOnly) =>
                \A i \in DOMAIN inodes' \ {maps'[h].root} :
                    inodes'[i].isDesc \/ inodes'[i].gen # inodes'[maps'[h].root].gen]_vars

(* C34 happens: a Clone of a read-write handle has returned a read-write   *)
(* handle, and the source has since been written                           *)
C34_Witness ==
    \E t \in Threads :
        /\ hist[t].op.op = "Clone" /\ hist[t].err = ""
        /\ maps[hist[t].op.dst].live
        /\ ~maps[hist[t].op.h].readOnly /\ ~maps[hist[t].op.dst].readOnly
        /\ \E i \in INodesBelow(maps[hist[t].op.h].root) \ {maps[hist[t].op.h].root} :
              inodes[i].gen = RootGen(hist[t].op.h)

(* thread t's gcasRead is about to hand a T-node to the ilookup that       *)
(* called it: the traversal of a Get ends at a tombstone                   *)
MeetsTomb(t) ==
    /\ At(t, "gcasRead") /\ Len(stack[t]) >= 2
    /\ stack[t][Len(stack[t]) - 1].fn = "ilookup"
    /\ stack[t][Len(stack[t]) - 1].pc = "il1"
    /\ \E r \in {Handle(Cfg(t, stack[t]))} :
          Len(r.stk) < Len(stack[t]) /\ r.err = "" /\ r.M[r.ret].k = "t"

(* the answer a tombstone tn gives to a search for entry e *)
TombAnswer(tn, e) ==
    IF tn.hash = e.hash /\ eqFunc(tn.key, e.key) THEN Found(tn.value) ELSE ZV

(* what handle h holds for key k, as an answer *)
HeldAnswer(h, k) ==
    LET es == {x \in EntriesOf(inodes, mains, maps[h].root) : x[1] = k} IN
    IF es = {} THEN {ZV} ELSE {Found(x[2]) : x \in es}

(* C35: a Get whose traversal ends at a T-node.  On a read-only handle it  *)
(* returns (value, true) when the tombstoned entry's hash and key equal    *)
(* the searched key and (zero, false) otherwise, and writes nothing.  On   *)
(* a read-write handle it calls clean on the parent (one level up) and     *)
(* gets no answer from this attempt: ilookup returns ok = false and lookup *)
(* starts over at the root; the answer the tombstone would have given is   *)
(* the one the map holds for the key, which the new attempt finds (no      *)
(* Set, Delete or Clear of the key running meanwhile).                     *)
C35_TombstoneGet ==
    \A t \in Threads :
        /\ MeetsTomb(t) =>
              \E c \in {Cfg(t, stack[t])} : \E r \in {Handle(c)} : \E q \in {Local(r)} :
              \E f \in {stack[t][Len(stack[t]) - 1]} : \E tn \in {r.M[r.ret].v} :
                 IF maps[f.h].readOnly
                 THEN /\ Stopped(q) /\ q.err = ""
                      /\ q.ret = TombAnswer(tn, f.entry)
                      /\ q.I = r.I /\ q.M = r.M /\ q.R = r.R
                 ELSE /\ ~Stopped(q)
                      /\ q.I = r.I /\ q.M = r.M /\ q.R = r.R
                      /\ Len(q.stk) > Len(r.stk)
                      /\ q.stk[Len(r.stk)].fn = "ilookup" /\ q.stk[Len(r.stk)].pc = "ilRetry"
                      /\ q.stk[Len(r.stk) + 1] =
                            [Fclean(f.parent, f.lev - w, f.h) EXCEPT !.pc = q.stk[Len(r.stk) + 1].pc]
                      /\ gh[t].clean => HeldAnswer(f.h, f.entry.key) = {TombAnswer(tn, f.entry)}
        /\ \A j \in 2 .. Len(stack[t]) :
              (stack[t][j].fn = "ilookup" /\ stack[t][j].pc = "ilRetry") =>
                 \E c \in {Cfg(t, SubSeq(stack[t], 1, j))} : \E q \in {Local(c)} :
                    /\ ~Stopped(q)
                    /\ q.stk[j - 1].fn = "lookup" /\ q.stk[j - 1].pc = "lk1"
                    /\ q.stk[j - 1].entry = stack[t][j].entry
                    /\ Len(q.stk) = j

(* C35 happens on a read-only handle: a Get on a snapshot is handed a      *)
(* tombstone of the key it searches                                        *)
C35_Witness ==
    \E t \in Threads :
        /\ MeetsTomb(t)
        /\ maps[Top(t).h].readOnly
        /\ \E r \in {Handle(Cfg(t, stack[t]))} :
              r.M[r.ret].v.key = stack[t][Len(stack[t]) - 1].entry.key

(* C36: renewal never orphans a live I-node.  Whenever renewed(gen) copies *)
(* a branch I-node to generation gen, that I-node's generation differs     *)
(* from gen: an I-node that carries the generation the operation started   *)
(* from (its handle's root generation) is never replaced in its parent     *)
(* C-node by a copy.                                                       *)
C36_RenewalKeepsLive ==
    \A t \in Threads : \A j \in 2 .. Len(stack[t]) :
        (stack[t][j].fn = "copyToGen" /\ stack[t][j - 1].fn = "renewed") =>
            inodes[stack[t][j].i].gen # stack[t][j].gen

(* C37: exclusive ownership of the live generation.  An I-node that        *)
(* carries the current root generation of a read-write handle h is         *)
(* reachable from no other handle: not from a clone, a read-only snapshot  *)
(* or the snapshot of an iterator.                                         *)
C37_LiveGenerationOwned ==
    \A h \in DOMAIN maps : \A h2 \in DOMAIN maps \ {h} :
        (maps[h].live /\ ~maps[h].readOnly /\ maps[h2].live) =>
            \A i \in INodesBelow(maps[h2].root) : inodes[i].gen # RootGen(h)

(* the main node an I-node holds for a reader: its main, or for a main     *)
(* whose GCAS is not committed the node that main was put on top of        *)
RECURSIVE HeldMain(_, _)
HeldMain(M, m) ==
    IF M[m].prev = Nil THEN m
    ELSE IF M[M[m].prev].k = "f" THEN HeldMain(M, M[M[m].prev].v)
    ELSE HeldMain(M, M[m].prev)
(* the key -> value contents below I-node i, over committed main nodes; a  *)
(* root that is a descriptor still shows the tree of its old root          *)
RECURSIVE ContentsOf(_, _, _)
ContentsOf(I, M, i) ==
    IF I[i].isDesc THEN ContentsOf(I, M, I[i].old) ELSE
    LET mn == M[HeldMain(M, I[i].main)] IN
    CASE mn.k = "c" ->
            UNION {IF mn.v.slice[j].t = "i" THEN ContentsOf(I, M, mn.v.slice[j].x)
                   ELSE {<<mn.v.slice[j].x.key, mn.v.slice[j].x.value>>} :
                   j \in 1 .. Len(mn.v.slice)}
      [] mn.k = "l" -> {<<mn.v[j].key, mn.v[j].value>> : j \in 1 .. Len(mn.v)}
      [] mn.k = "t" -> {<<mn.v.key, mn.v.value>>}
      [] OTHER -> {}
(* main node m is the node of the GCAS by which a Set or a Delete writes   *)
(* its entry: the gcas called by iinsert in tail position or by iremove on *)
(* removing from a C-node or an L-node (not a renewal, not a compression)  *)
WriteGcas(m) ==
    \E u \in Threads : \E j \in 2 .. Len(stack[u]) :
        /\ stack[u][j].fn = "gcas" /\ stack[u][j].n = m
        /\ \/ stack[u][j - 1].fn = "insert"
           \/ stack[u][j - 1].fn = "iremove" /\ stack[u][j - 1].pc \in {"irDone", "irL"}
(* descriptor d is the one of a Clear *)
ClearSwap(d) ==
    \E u \in Threads : \E j \in 2 .. Len(stack[u]) :
        /\ stack[u][j].fn = "rdcssRoot" /\ stack[u][j].desc = d
        /\ stack[u][j - 1].fn = "Clear"
(* h is one handle before and after the step: its root is the same or has  *)
(* changed by a step of an RDCSS (a handle made anew by Clone, RClone or   *)
(* Iterator in the place of an earlier one is another handle)              *)
SameHandle(h) ==
    /\ maps[h].live /\ maps'[h].live
    /\ \/ maps'[h].root = maps[h].root
       \/ inodes[maps[h].root].isDesc
       \/ inodes'[maps'[h].root].isDesc
(* the step is a commit point of handle h *)
CommitPoint(h) ==
    \/ \E t \in Threads : Commits(t) /\ WriteGcas(Top(t).m)
    \/ \E t \in Threads :
          /\ Completes(t, "rcCommit", maps[h].root) /\ maps'[h].root # maps[h].root
          /\ ClearSwap(maps[h].root)

(* C38: contents change only at commit points.  In every step, the         *)
(* key -> value contents of a handle change only if the step is the commit *)
(* CAS of the GCAS of a Set or a Delete, or the root swap of a Clear; the  *)
(* steps of Get, Len, Iterator, Clone, RClone, of a renewal, of clean and  *)
(* cleanParent and of helping leave the contents of every handle as they   *)
(* are.                                                                    *)
C38_CommitPoints ==
    [][\A h \in DOMAIN maps :
          (/\ SameHandle(h)
           /\ ContentsOf(inodes', mains', maps'[h].root) # ContentsOf(inodes, mains, maps[h].root))
             => CommitPoint(h)]_vars

(* the main node m is a committed tombstone *)
Tomb(M, m) == M[m].k = "t" /\ M[m].prev = Nil
(* thread t's gcasRead is about to hand a T-node to the traversal fn that  *)
(* called it at pc                                                         *)
HandsTomb(t, fn, pc) ==
    /\ At(t, "gcasRead") /\ Len(stack[t]) >= 2
    /\ stack[t][Len(stack[t]) - 1].fn = fn
    /\ stack[t][Len(stack[t]) - 1].pc = pc
    /\ \E r \in {Handle(Cfg(t, stack[t]))} :
          Len(r.stk) < Len(stack[t]) /\ r.err = "" /\ r.M[r.ret].k = "t"
(* the traversal that is handed a T-node writes nothing, calls clean on    *)
(* the parent, one level up, and waits for it at pc retry                  *)
OnlyCleans(t, retry) ==
    \E c \in {Cfg(t, stack[t])} : \E r \in {Handle(c)} : \E q \in {Local(r)} :
    \E f \in {stack[t][Len(stack[t]) - 1]} :
        /\ f.parent # Nil
        /\ ~Stopped(q)
        /\ q.I = r.I /\ q.M = r.M /\ q.R = r.R
        /\ Len(q.stk) > Len(r.stk)
        /\ q.stk[Len(r.stk)].fn = f.fn /\ q.stk[Len(r.stk)].pc = retry
        /\ q.stk[Len(r.stk) + 1] =
              [Fclean(f.parent, f.lev - w, f.h) EXCEPT !.pc = q.stk[Len(r.stk) + 1].pc]
(* a traversal whose clean has returned starts over: its caller reads the  *)
(* root again, for the same entry                                          *)
StartsOver(t, fn, retry, caller, pc) ==
    \A j \in 2 .. Len(stack[t]) :
        (stack[t][j].fn = fn /\ stack[t][j].pc = retry) =>
            \E c \in {Cfg(t, SubSeq(stack[t], 1, j))} : \E q \in {Local(c)} :
                /\ ~Stopped(q)
                /\ Len(q.stk) = j
                /\ q.stk[j - 1].fn = caller /\ q.stk[j - 1].pc = pc
                /\ q.stk[j - 1].entry = stack[t][j].entry
                /\ q.I = inodes /\ q.M = mains

(* no step changes an I-node whose main is a committed T-node, or that    *)
(* T-node                                                                  *)
TombKept ==
    \A i \in DOMAIN inodes :
        (~inodes[i].isDesc /\ Tomb(mains, inodes[i].main)) =>
            /\ i \in DOMAIN inodes'
            /\ inodes'[i] = inodes[i]
            /\ mains'[inodes[i].main] = mains[inodes[i].main]
(* no gcas of thread t is to replace a T-node *)
TombNotReplaced(t) ==
    \A j \in 1 .. Len(stack[t]) :
        stack[t][j].fn = "gcas" => mains[stack[t][j].old].k # "t"
(* a Set or a Delete of thread t that is handed a T-node only cleans the   *)
(* parent, and starts over after it; so does a Get after its clean         *)
WritersClean(t) ==
    /\ HandsTomb(t, "iinsert", "ii1") => OnlyCleans(t, "iiFalse")
    /\ HandsTomb(t, "iremove", "ir1") => OnlyCleans(t, "irRetry")
    /\ StartsOver(t, "iinsert", "iiFalse", "insert", "in1")
    /\ StartsOver(t, "iremove", "irRetry", "remove", "rm1")
    /\ StartsOver(t, "ilookup", "ilRetry", "lookup", "lk1")
(* the Get on a read-only handle that is handed a T-node writes nothing    *)
(* and calls no clean                                                      *)
OnlyReads(t) ==
    \E c \in {Cfg(t, stack[t])} : \E r \in {Handle(c)} : \E q \in {Local(r)} :
        /\ q.err = ""
        /\ q.I = r.I /\ q.M = r.M /\ q.R = r.R
        /\ \A j \in 1 .. Len(q.stk) : q.stk[j].fn # "clean"

(* C39 as stated: a tombstone is terminal.  Once the main of an I-node is  *)
(* a T-node whose GCAS is committed, no step changes that I-node's main or *)
(* the T-node; no gcas is called to replace a T-node; and every Set, Get   *)
(* or Delete whose traversal is handed a T-node writes nothing, calls      *)
(* clean on the parent and then starts over at the root.                   *)
C39_TombstoneRetry ==
    /\ [][TombKept]_vars
    /\ [](\A t \in Threads :
            /\ TombNotReplaced(t)
            /\ WritersClean(t)
            /\ HandsTomb(t, "ilookup", "il1") => OnlyCleans(t, "ilRetry"))

(* C39 amended: a tombstone is terminal, as above, and a Set, a Delete or  *)
(* a Get on a read-write handle that is handed a T-node only cleans the    *)
(* parent and starts over; a Get on a read-only handle that is handed a    *)
(* T-node neither cleans nor starts over and writes nothing.               *)
C39_TombstoneTerminal ==
    /\ [][TombKept]_vars
    /\ [](\A t \in Threads :
            /\ TombNotReplaced(t)
            /\ WritersClean(t)
            /\ HandsTomb(t, "ilookup", "il1") =>
                  IF maps[Top(t).h].readOnly THEN OnlyReads(t)
                  ELSE OnlyCleans(t, "ilRetry"))

(* C39 happens: the traversal of a Set is handed a committed tombstone     *)
C39_Witness ==
    \E t \in Threads :
        /\ HandsTomb(t, "iinsert", "ii1")
        /\ Tomb(mains, inodes[Top(t).in].main)

(* the threads whose latest call, returned, is Delete(k) on handle h in    *)
(* phase p                                                                 *)
Deleters(h, k, p) ==
    {t \in Threads :
        /\ ~Running(t)
        /\ hist[t].op.op = "Delete" /\ hist[t].op.h = h /\ hist[t].op.k = k
        /\ hist[t].op.ph = p}
(* the calls Delete(k) on h of phase p are over and nothing of a later     *)
(* phase has begun; none of the threads calls it twice in the phase and no *)
(* call of the phase is a Set of an equal key or a Clear on h              *)
DeletesDone(h, k, p) ==
    \A t \in Threads :
        /\ Running(t) => (CurOp(t).ph = p /\ ~(CurOp(t).op = "Delete" /\ CurOp(t).k = k))
        /\ hist[t].op.ph <= p
        /\ \A j \in 1 .. Len(Prog(t)) : \E o \in {Prog(t)[j]} :
              (o.ph = p /\ o.h = h) =>
                 /\ ~(o.op = "Set" /\ eqFunc(o.k, k))
                 /\ o.op # "Clear"
                 /\ (o.op = "Delete" /\ o.k = k) =>
                       (j < ip[t] /\ \A j2 \in 1 .. Len(Prog(t)) :
                                        (Prog(t)[j2] = o) => j2 = j)
(* key k is among the contents of handle h *)
Present(h, k) == \E x \in ContentsOf(inodes, mains, maps[h].root) : x[1] = k

(* C40: concurrent Deletes of one key.  When two or more threads have      *)
(* called Delete(k) on a read-write handle at the same time, with no Set   *)
(* of an equal key at that time, and all of them have returned: at most    *)
(* one call returned (v, true), and if none did the key is not in the map  *)
(* (of a key that was present exactly one call returned (v, true), the     *)
(* others (zero, false)).                                                  *)
C40_OneDeleteWins ==
    \A u \in Threads : \E h \in {hist[u].op.h} : \E k \in {hist[u].op.k} :
    \E p \in {hist[u].op.ph} :
        (/\ hist[u].op.op = "Delete"
         /\ maps[h].live /\ ~maps[h].readOnly
         /\ Cardinality(Deleters(h, k, p)) >= 2
         /\ DeletesDone(h, k, p)) =>
            \E won \in {{t \in Deleters(h, k, p) : hist[t].res.tag = "val"}} :
                /\ \A t \in Deleters(h, k, p) : hist[t].res.tag \in {"val", "absent"}
                /\ Cardinality(won) <= 1
                /\ won = {} => ~Present(h, k)
====
